---- MODULE Spec2Model ----
(***************************************************************************)
(* A model of the object-tree convergence engine of any-sync-node:         *)
(* docTree (pkg/acl/tree/doctree.go) over its Tree, tree builder,          *)
(* validator, tree storage and ACL state.                                  *)
(*                                                                         *)
(* Change ids are content hashes; here they are small naturals and the     *)
(* lexicographic order of ids is the order of the naturals.  NoId is the   *)
(* empty id "".                                                            *)
(***************************************************************************)
EXTENDS Integers, Sequences, FiniteSets, TLC

VARIABLES
    d,        \* the docTree under test: tree, snapshotPath memo, treeStorage
    created,  \* the changes authored locally by AddContent, id -> content
    res,      \* what the last call returned and did (result, error, writes)
    calls,    \* how many calls were made on the docTree
    peerA,    \* convergence scenario: node A's docTree
    peerB,    \* convergence scenario: node B's docTree
    phase,    \* convergence scenario: "edit" until the exchange, then "exchanged"
    rw,       \* the sync.RWMutex embedded in docTree: "free" or the caller holding it
    pc,       \* per concurrent caller: the step its call has reached, its buffers
    cd,       \* the docTree shared by the concurrent callers
    seen,     \* what the last TreeParams read, and which calls were running then
    aclState, \* per replica: the ACLState built by replaying the ACL records
    aclRes,   \* the last ACL record replayed and the error each replica returned
    ocache,   \* the ocache of the tree cache: key -> entry, and the entries
    getters,  \* per caller of the tree cache: where its call is, what it returned
    rounds,   \* per object id: the concurrent calls on it, their loads and results
    hsync,    \* the hotSync component: its queues, the space cache, the last tick
    pm,       \* a space's peer manager: its responsible peers, the clock, the pool
    sv,       \* the node space service: cached spaces, the last call's outcome
    tb        \* an ACLTreeBuilder: its thread, the walk from the heads, what it built

treeVars == <<d, created, res, calls>>
convVars == <<peerA, peerB, phase>>
lockVars == <<rw, pc, cd, seen>>
aclVars == <<aclState, aclRes>>
cacheVars == <<ocache, getters, rounds>>
nodeVars == <<hsync, pm, sv, tb>>
vars == <<d, created, res, calls, peerA, peerB, phase, rw, pc, cd, seen, aclState, aclRes,
         ocache, getters, rounds, hsync, pm, sv, tb>>

(***************************************************************************)
(* Bounds of the model.                                                    *)
(***************************************************************************)
MaxBatch == 2       \* longest batch handed to AddRawChanges
MaxLocal == 1       \* changes authored through AddContent
MaxCalls == 3       \* calls made on one docTree

NoId == -1

(***************************************************************************)
(* ACL state: permissionsAtRecord, record id -> sequence of                *)
(* (identity, permission) pairs, as applyRecord leaves it.                 *)
(***************************************************************************)
permissionsAtRecord ==
    [a0 |-> << [Identity |-> "alice", Permission |-> "Admin"] >>,
     a1 |-> << [Identity |-> "alice", Permission |-> "Admin"],
               [Identity |-> "bob",   Permission |-> "Writer"],
               [Identity |-> "carol", Permission |-> "Reader"] >>]

AclHeadId == "a1"            \* aclList.Head().Id
currentReadKeyHash == 7      \* ACLState.currentReadKeyHash

\* ACLState.PermissionsAtRecord: the first pair of the record for the identity
PermissionsAtRecord(id, identity) ==
    IF id \notin DOMAIN permissionsAtRecord
    THEN [err |-> "ErrNoSuchRecord", Permission |-> "None"]
    ELSE LET ps == permissionsAtRecord[id]
             hit == {i \in 1..Len(ps) : ps[i].Identity = identity}
         IN IF hit = {}
            THEN [err |-> "ErrNoSuchUser", Permission |-> "None"]
            ELSE [err |-> "nil",
                  Permission |-> ps[CHOOSE i \in hit : \A j \in hit : i <= j].Permission]

(***************************************************************************)
(* The changes that exist on the network.  0 is the tree's first change    *)
(* (a snapshot with no parents); 4 is a snapshot on top of 2; 5 builds on  *)
(* snapshot 4; 6 fills in after 1 and is authored by a Reader; 7 merges    *)
(* the fork 2|3.                                                           *)
(***************************************************************************)
Mk(prev, snap, isSnap, identity, acl) ==
    [PreviousIds |-> prev, SnapshotId |-> snap, IsSnapshot |-> isSnap,
     Identity |-> identity, AclHeadId |-> acl,
     CurrentReadKeyHash |-> currentReadKeyHash, SigOk |-> TRUE]

Universe ==
    (0 :> Mk({},     NoId, TRUE,  "alice", "a0")) @@
    (1 :> Mk({0},    0,    FALSE, "bob",   "a1")) @@
    (2 :> Mk({1},    0,    FALSE, "bob",   "a1")) @@
    (3 :> Mk({0},    0,    FALSE, "alice", "a1")) @@
    (4 :> Mk({2},    0,    TRUE,  "bob",   "a1")) @@
    (5 :> Mk({4},    4,    FALSE, "alice", "a1")) @@
    (6 :> Mk({1},    0,    FALSE, "carol", "a1")) @@
    (7 :> Mk({2, 3}, 0,    FALSE, "bob",   "a1"))

RootChange == 0
RemoteIds == DOMAIN Universe
LocalIds == 100..(100 + MaxLocal - 1)     \* ids of locally authored changes

\* the content behind an id
Change(id) == IF id \in RemoteIds THEN Universe[id] ELSE created[id]

(***************************************************************************)
(* Helpers on sets and sequences.                                          *)
(***************************************************************************)
Min(S) == CHOOSE x \in S : \A y \in S : x <= y

RECURSIVE SortedSeq(_)
SortedSeq(S) == IF S = {} THEN <<>> ELSE <<Min(S)>> \o SortedSeq(S \ {Min(S)})

Range(s) == {s[i] : i \in 1..Len(s)}

SelectIdx(s, P(_)) == SelectSeq(s, P)

\* Go's builtin copy(dst, src): overwrites the first min(len(dst), len(src)) elements
GoCopy(dst, src) ==
    IF Len(dst) = 0 THEN <<>>
    ELSE [i \in 1..Len(dst) |-> IF i <= Len(src) THEN src[i] ELSE dst[i]]

\* make([]string, 0, n): length 0 whatever the capacity
MakeLen0(cap) == <<>>

(***************************************************************************)
(* Tree: attached / unAttached partitions, head ids and root.              *)
(***************************************************************************)
EmptyTree == [attached |-> {}, unAttached |-> {}, headIds |-> {}, rootId |-> NoId]

RECURSIVE Up(_, _)
Up(frontier, acc) ==
    LET nxt == (UNION {Change(c).PreviousIds : c \in frontier}) \ acc
    IN IF nxt = {} THEN acc ELSE Up(nxt, acc \cup nxt)

\* every change the given one descends from, by its parent links
Ancestors(id) == Up({id}, {})

\* the members of att that no member of att lists as a parent
HeadsOf(att) == {c \in att : \A a \in att : c \notin Change(a).PreviousIds}

RECURSIVE Drain(_, _)
Drain(att, pool) ==
    LET a == {c \in pool : Change(c).PreviousIds \subseteq att}
    IN IF a = {} THEN att ELSE Drain(att \cup a, pool \ a)

\* Tree.Add: attach every candidate whose parents are attached, drain the
\* unattached changes that became attachable, recompute the heads.
TreeAdd(t, cands) ==
    LET new    == cands \ (t.attached \cup t.unAttached)
        first  == {c \in new : Change(c).PreviousIds \subseteq t.attached}
        pool   == t.unAttached \cup new
        att    == Drain(t.attached, pool)
        gained == att \ t.attached
    IN IF first = {}
       THEN [tree |-> [t EXCEPT !.unAttached = pool], mode |-> "Nothing"]
       ELSE [tree |-> [t EXCEPT !.attached = att,
                                !.unAttached = pool \ att,
                                !.headIds = HeadsOf(att)],
             mode |-> IF \E g \in gained, h \in t.headIds : g \in Ancestors(h)
                      THEN "Rebuild" ELSE "Append"]

\* Tree.AddMergedHead: a locally authored change on top of the current heads;
\* the first change of an empty tree becomes its root.
AddMergedHead(t, id, prevIds) ==
    IF t.rootId = NoId
    THEN [err |-> "nil",
          tree |-> [attached |-> {id}, unAttached |-> {}, headIds |-> {id}, rootId |-> id]]
    ELSE IF prevIds \subseteq t.attached
         THEN [err |-> "nil",
               tree |-> [t EXCEPT !.attached = @ \cup {id}, !.headIds = {id}]]
         ELSE [err |-> "notAttached", tree |-> t]

\* Tree.reduceTree: when every head descends from one snapshot S that descends
\* from the root, S becomes the root and its ancestors leave attached.
ReduceCandidates(t) ==
    {s \in t.attached :
        /\ Change(s).IsSnapshot
        /\ s # t.rootId
        /\ t.rootId \in Ancestors(s)
        /\ t.headIds # {}
        /\ \A h \in t.headIds : h \in t.attached /\ (h = s \/ s \in Ancestors(h))}

reduceTo(t, cs) ==
    IF cs = {} THEN t
    ELSE LET S == Min({s \in cs : \A o \in cs : s \notin Ancestors(o)})
         IN [t EXCEPT !.rootId = S, !.attached = @ \ Ancestors(S)]

reduceTree(t) == reduceTo(t, ReduceCandidates(t))

\* Tree.Iterate: from a change, parents before children, the smallest id first
\* among the changes that are ready.
RECURSIVE IterFrom(_, _)
IterFrom(t, done) ==
    LET seenSet == Range(done)
        ready == {c \in t.attached \ seenSet :
                     /\ Change(c).PreviousIds \cap seenSet # {}
                     /\ (Change(c).PreviousIds \cap (t.attached \cup seenSet)) \subseteq seenSet}
    IN IF ready = {} THEN done ELSE IterFrom(t, Append(done, Min(ready)))

TreeIterate(t, from) ==
    IF from \in t.attached THEN IterFrom(t, <<from>>) ELSE <<>>

(***************************************************************************)
(* Validator: every change the iteration from the root reaches is authored *)
(* by a user with at least Writer at the change's ACL record and carries   *)
(* the read-key hash current at that record.                               *)
(***************************************************************************)
ValidChange(id) ==
    LET p == PermissionsAtRecord(Change(id).AclHeadId, Change(id).Identity)
    IN /\ p.err = "nil"
       /\ p.Permission \in {"Admin", "Writer"}
       /\ Change(id).CurrentReadKeyHash = currentReadKeyHash
       /\ Change(id).SigOk

ValidateTree(t) ==
    IF \A c \in Range(TreeIterate(t, t.rootId)) : ValidChange(c)
    THEN "nil" ELSE "invalid"

(***************************************************************************)
(* treeBuilder.Build: loads from the storage heads back to the snapshot    *)
(* all of them descend from, takes the new changes as if loaded, and       *)
(* requires a single possible root.                                        *)
(***************************************************************************)
BuildBase(dd) ==
    LET snaps == {s \in dd.stChanges :
                     /\ Change(s).IsSnapshot
                     /\ \A h \in dd.stHeads : h = s \/ s \in Ancestors(h)}
    IN IF dd.stHeads = {} \/ snaps = {} THEN NoId
       ELSE Min({s \in snaps : \A o \in snaps : s \notin Ancestors(o)})

\* what the DFS from the storage heads loads: the base and its descendants
loadedFrom(dd, base) ==
    {base} \cup {c \in (dd.stHeads \cup UNION {Ancestors(h) : h \in dd.stHeads}) :
                    base \in Ancestors(c)}

builtTree(base, nodes, att) ==
    [attached |-> att, unAttached |-> nodes \ att, headIds |-> HeadsOf(att), rootId |-> base]

buildNodes(dd, base, loaded, nodes) ==
    IF base = NoId \/ ~(dd.stHeads \subseteq dd.stChanges)
    THEN [err |-> "LoadError", tree |-> EmptyTree]
    ELSE IF ~(loaded \subseteq dd.stChanges)
    THEN [err |-> "LoadError", tree |-> EmptyTree]
    ELSE IF Cardinality({base} \cup {c \in nodes : Change(c).PreviousIds = {}}) > 1
    THEN [err |-> "ErrMultipleRoots", tree |-> EmptyTree]
    ELSE [err |-> "nil", tree |-> builtTree(base, nodes, Drain({base}, nodes \ {base}))]

buildLoaded(dd, newChanges, base, loaded) == buildNodes(dd, base, loaded, loaded \cup newChanges)

buildFrom(dd, newChanges, base) == buildLoaded(dd, newChanges, base, loadedFrom(dd, base))

Build(dd, newChanges) == buildFrom(dd, newChanges, BuildBase(dd))

(***************************************************************************)
(* docTree (doctree.go).  A docTree value is                               *)
(*   tree          the Tree                                                *)
(*   snapshotPath  the memoized snapshot path                              *)
(*   stChanges     treeStorage: ids of the raw changes stored              *)
(*   stHeads       treeStorage: the stored heads                           *)
(***************************************************************************)
Heads(t) == SortedSeq(t.headIds)
RootId(t) == t.rootId

\* the zero value of Mode, which addRawChanges returns when it never assigns mode
ModeZero == "Nothing"

ZeroAddResult == [OldHeads |-> <<>>, Heads |-> <<>>, Added |-> <<>>, Summary |-> "Nothing"]

\* HasChange that forgets the unattached partition
HasChangeAttachedOnly(dd, s) == s \in dd.tree.attached

HasChange(dd, s) == s \in dd.tree.attached \/ s \in dd.tree.unAttached

\* NewVerifiedChangeFromRaw: fails on a signature that does not verify
NewVerifiedChangeFromRaw(id) == IF Change(id).SigOk THEN "nil" ELSE "ErrInvalidSignature"

\* prevHeadsCopy / headsCopy: make([]string, 0, len(heads)) then copy(...)
headsCopy(t) == GoCopy(MakeLen0(Len(Heads(t))), Heads(t))

\* the indexes of rawChanges the filtering loop keeps, up to and without index n
RECURSIVE notSeenIdx(_, _, _)
notSeenIdx(dd, rawChanges, n) ==
    IF n = 0 THEN <<>>
    ELSE IF HasChange(dd, rawChanges[n])
         THEN notSeenIdx(dd, rawChanges, n - 1)
         ELSE Append(notSeenIdx(dd, rawChanges, n - 1), n)

\* the error of the first not-yet-known raw change that does not verify
RECURSIVE firstVerifyErr(_, _, _)
firstVerifyErr(dd, rawChanges, i) ==
    IF i > Len(rawChanges) THEN "nil"
    ELSE IF ~HasChange(dd, rawChanges[i]) /\ NewVerifiedChangeFromRaw(rawChanges[i]) # "nil"
         THEN NewVerifiedChangeFromRaw(rawChanges[i])
         ELSE firstVerifyErr(dd, rawChanges, i + 1)

\* getAddedChanges: the not-seen raw changes that are attached now, in batch order
getAddedChanges(t, rawChanges, idxBuf) ==
    LET picked == SelectSeq(idxBuf, LAMBDA i : rawChanges[i] \in t.attached)
    IN [k \in 1..Len(picked) |-> rawChanges[picked[k]]]

\* rollback: every candidate leaves attached, or else unAttached
rollback(t, tmpChangesBuf) ==
    [t EXCEPT !.attached = @ \ Range(tmpChangesBuf),
              !.unAttached = @ \ (Range(tmpChangesBuf) \ t.attached)]

\* isOldSnapshot: the change's snapshot is neither the root nor a snapshot of the batch
isOldSnapshot(t, newSnapshotsBuf, ch) ==
    /\ Change(ch).SnapshotId # RootId(t)
    /\ \A i \in 1..Len(newSnapshotsBuf) : Change(ch).SnapshotId # newSnapshotsBuf[i]

\* rebuildFromStorage: Build, then validate what was built
validateBuilt(b) ==
    IF b.err # "nil" THEN [tree |-> b.tree, err |-> b.err]
    ELSE [tree |-> b.tree, err |-> ValidateTree(b.tree)]

rebuildFromStorage(dd, newChanges) == validateBuilt(Build(dd, newChanges))

\* the AddResult of a call that found nothing new or attached nothing
addResultNothing(prevHeadsCopy) ==
    [OldHeads |-> prevHeadsCopy, Heads |-> prevHeadsCopy, Added |-> <<>>, Summary |-> "Nothing"]

\* the AddResult of a call that left the tree t
addResultOf(t, rawChanges, idxBuf, prevHeadsCopy, summary) ==
    [OldHeads |-> prevHeadsCopy, Heads |-> headsCopy(t),
     Added |-> getAddedChanges(t, rawChanges, idxBuf), Summary |-> summary]

\* the rebuild that leaves the failed tree in place
rebuildModeNoRestore(dd, rawChanges, idxBuf, prevHeadsCopy, r1) ==
    IF r1.err # "nil"
    THEN [tree |-> r1.tree, mode |-> ModeZero, addResult |-> ZeroAddResult, err |-> r1.err]
    ELSE [tree |-> r1.tree, mode |-> ModeZero,
          addResult |-> addResultOf(r1.tree, rawChanges, idxBuf, prevHeadsCopy, "Rebuild"),
          err |-> "nil"]

\* a candidate names an old snapshot: r1 is what rebuildFromStorage with the
\* candidates returned; if it failed the tree is rebuilt without them
rebuildMode(dd, rawChanges, idxBuf, prevHeadsCopy, r1) ==
    IF r1.err # "nil"
    THEN [tree |-> rebuildFromStorage(dd, {}).tree, mode |-> ModeZero,
          addResult |-> ZeroAddResult, err |-> r1.err]
    ELSE [tree |-> r1.tree, mode |-> ModeZero,
          addResult |-> addResultOf(r1.tree, rawChanges, idxBuf, prevHeadsCopy, "Rebuild"),
          err |-> "nil"]

\* normal mode of operation: a is what d.tree.Add returned
normalMode(rawChanges, idxBuf, tmpChangesBuf, prevHeadsCopy, a) ==
    IF a.mode = "Nothing"
    THEN [tree |-> a.tree, mode |-> a.mode,
          addResult |-> addResultNothing(prevHeadsCopy), err |-> "nil"]
    ELSE IF ValidateTree(a.tree) # "nil"
    THEN [tree |-> rollback(a.tree, tmpChangesBuf), mode |-> a.mode,
          addResult |-> ZeroAddResult, err |-> "ErrHasInvalidChanges"]
    ELSE [tree |-> a.tree, mode |-> a.mode,
          addResult |-> addResultOf(a.tree, rawChanges, idxBuf, prevHeadsCopy, "Append"),
          err |-> "nil"]

\* addRawChanges after the filtering loop
addNotSeen(dd, rawChanges, idxBuf, tmpChangesBuf, prevHeadsCopy) ==
    IF Len(idxBuf) = 0
    THEN [tree |-> dd.tree, mode |-> ModeZero,
          addResult |-> addResultNothing(prevHeadsCopy), err |-> "nil"]
    ELSE IF \E k \in 1..Len(tmpChangesBuf) :
                isOldSnapshot(dd.tree,
                              SelectSeq(tmpChangesBuf, LAMBDA c : Change(c).IsSnapshot),
                              tmpChangesBuf[k])
    THEN rebuildMode(dd, rawChanges, idxBuf, prevHeadsCopy,
                     rebuildFromStorage(dd, Range(tmpChangesBuf)))
    ELSE normalMode(rawChanges, idxBuf, tmpChangesBuf, prevHeadsCopy,
                    TreeAdd(dd.tree, Range(tmpChangesBuf)))

\* tmpChangesBuf: the raw changes at the indexes the filtering loop kept
tmpChanges(rawChanges, idxBuf) == [k \in 1..Len(idxBuf) |-> rawChanges[idxBuf[k]]]

addFiltered(dd, rawChanges, idxBuf) ==
    addNotSeen(dd, rawChanges, idxBuf, tmpChanges(rawChanges, idxBuf), headsCopy(dd.tree))

addRawChanges(dd, rawChanges) ==
    IF firstVerifyErr(dd, rawChanges, 1) # "nil"
    THEN [tree |-> dd.tree, mode |-> ModeZero, addResult |-> ZeroAddResult,
          err |-> firstVerifyErr(dd, rawChanges, 1)]
    ELSE addFiltered(dd, rawChanges, notSeenIdx(dd, rawChanges, Len(rawChanges)))

\* which listener method the switch on mode calls
Notify(mode) ==
    CASE mode = "Append" -> "Update"
      [] mode = "Rebuild" -> "Rebuild"
      [] OTHER -> "none"

\* what a call of AddRawChanges leaves for inspection
callResult(rawChanges, r, failAt, err, nAddRawChange, nSetHeads, notify) ==
    [batch |-> rawChanges, op |-> "AddRawChanges", mode |-> r.mode,
     addResult |-> r.addResult, failAt |-> failAt, err |-> err,
     nAddRawChange |-> nAddRawChange, nSetHeads |-> nSetHeads, notify |-> notify]

\* AddRawChanges after reduceTree left the tree t: AddRawChange of every added
\* change, then SetHeads, then the listener.  failAt = 0: every storage write
\* succeeds; failAt = k: the k-th write of the call fails.
storeAdded(dd, rawChanges, r, failAt, t) ==
    IF failAt \in 1..Len(r.addResult.Added)
    THEN [d |-> [dd EXCEPT !.tree = t,
                           !.stChanges = @ \cup {r.addResult.Added[k] : k \in 1..(failAt - 1)}],
          res |-> callResult(rawChanges, r, failAt, "StorageError", failAt, 0, "none")]
    ELSE IF failAt = Len(r.addResult.Added) + 1
    THEN [d |-> [dd EXCEPT !.tree = t,
                           !.stChanges = @ \cup Range(r.addResult.Added)],
          res |-> callResult(rawChanges, r, failAt, "StorageError",
                             Len(r.addResult.Added), 1, "none")]
    ELSE [d |-> [dd EXCEPT !.tree = t,
                           !.stChanges = @ \cup Range(r.addResult.Added),
                           !.stHeads = t.headIds],
          res |-> callResult(rawChanges, r, failAt, "nil",
                             Len(r.addResult.Added), 1, Notify(r.mode))]

\* AddRawChanges after its call of addRawChanges returned r
AddRawChangesFrom(dd, rawChanges, r, failAt) ==
    IF r.err # "nil"
    THEN [d |-> [dd EXCEPT !.tree = r.tree],
          res |-> callResult(rawChanges, r, failAt, r.err, 0, 0, "none")]
    ELSE storeAdded(dd, rawChanges, r, failAt, reduceTree(r.tree))

AddRawChanges(dd, rawChanges, failAt) ==
    AddRawChangesFrom(dd, rawChanges, addRawChanges(dd, rawChanges), failAt)

\* the storage writes of a call that may fail, given what addRawChanges returned
FailPoints(r) == IF r.err # "nil" THEN {0} ELSE 0..(Len(r.addResult.Added) + 1)

\* the id AddContent computes for the change it builds
NewLocalId == 100 + Cardinality(DOMAIN created)

\* AddContent.  The change is built on the current heads, root and ACL head;
\* a snapshot replaces the tree; AddMergedHead failing panics; then the change
\* is stored and becomes the only stored head.  The deferred Update always fires.
AddContentChange(dd, identity, isSnapshot) ==
    [PreviousIds |-> Range(Heads(dd.tree)), SnapshotId |-> RootId(dd.tree),
     IsSnapshot |-> isSnapshot, Identity |-> identity, AclHeadId |-> AclHeadId,
     CurrentReadKeyHash |-> currentReadKeyHash, SigOk |-> TRUE]

\* AddContent that adds the new change to the stored heads
AddContentAppendsHead(dd, id, isSnapshot, readKeyOk, failAt) ==
    LET t0 == IF isSnapshot THEN EmptyTree ELSE dd.tree
        m == AddMergedHead(t0, id, Range(Heads(dd.tree)))
        base == [batch |-> <<id>>, op |-> "AddContent", mode |-> ModeZero,
                 addResult |-> ZeroAddResult, failAt |-> failAt, notify |-> "Update"]
    IN IF ~readKeyOk \/ m.err # "nil" \/ failAt # 0
       THEN [d |-> dd,
             res |-> base @@ [err |-> "StorageError", nAddRawChange |-> 0, nSetHeads |-> 0]]
       ELSE [d |-> [dd EXCEPT !.tree = m.tree, !.stChanges = @ \cup {id},
                              !.stHeads = @ \cup {id}],
             res |-> base @@ [err |-> "nil", nAddRawChange |-> 1, nSetHeads |-> 1]]

AddContent(dd, id, isSnapshot, readKeyOk, failAt) ==
    LET t0 == IF isSnapshot THEN EmptyTree ELSE dd.tree
        m == AddMergedHead(t0, id, Range(Heads(dd.tree)))
        base == [batch |-> <<id>>, op |-> "AddContent", mode |-> ModeZero,
                 addResult |-> ZeroAddResult, failAt |-> failAt, notify |-> "Update"]
    IN IF ~readKeyOk
       THEN [d |-> dd,
             res |-> base @@ [err |-> "ErrNoReadKey", nAddRawChange |-> 0, nSetHeads |-> 0]]
       ELSE IF m.err # "nil"
       THEN [d |-> dd,
             res |-> base @@ [err |-> "panic", nAddRawChange |-> 0, nSetHeads |-> 0]]
       ELSE IF failAt = 1
       THEN [d |-> [dd EXCEPT !.tree = m.tree],
             res |-> base @@ [err |-> "StorageError", nAddRawChange |-> 1, nSetHeads |-> 0]]
       ELSE IF failAt = 2
       THEN [d |-> [dd EXCEPT !.tree = m.tree, !.stChanges = @ \cup {id}],
             res |-> base @@ [err |-> "StorageError", nAddRawChange |-> 1, nSetHeads |-> 1]]
       ELSE [d |-> [dd EXCEPT !.tree = m.tree, !.stChanges = @ \cup {id}, !.stHeads = {id}],
             res |-> base @@ [err |-> "nil", nAddRawChange |-> 1, nSetHeads |-> 1]]

\* snapshotPathIsActual: the memo is non-empty and its LAST element is the root
snapshotPathIsActual(dd) ==
    Len(dd.snapshotPath) # 0 /\ dd.snapshotPath[Len(dd.snapshotPath)] = RootId(dd.tree)

\* the walk of SnapshotPath: from an id along SnapshotId while the change loads
RECURSIVE walkSnapshots(_, _, _)
walkSnapshots(dd, currentSnapshotId, path) ==
    IF currentSnapshotId = NoId \/ currentSnapshotId \notin dd.stChanges
    THEN path
    ELSE walkSnapshots(dd, Change(currentSnapshotId).SnapshotId,
                       Append(path, currentSnapshotId))

\* SnapshotPath that returns any memo it has, whatever the root is now
SnapshotPathKeepsMemo(dd) ==
    IF Len(dd.snapshotPath) # 0 THEN dd.snapshotPath
    ELSE walkSnapshots(dd, RootId(dd.tree), <<>>)

\* SnapshotPath: the memo if it is "actual", else the walk, which is memoized
SnapshotPath(dd) ==
    IF snapshotPathIsActual(dd) THEN dd.snapshotPath
    ELSE walkSnapshots(dd, RootId(dd.tree), <<>>)

\* SnapshotPath memoizes what it returns
WithPath(dd) == [dd EXCEPT !.snapshotPath = SnapshotPath(dd)]

\* commonSnapshotForTwoPaths: the first id of ourPath that occurs in theirPath
commonSnapshotForTwoPaths(ourPath, theirPath) ==
    LET hits == {i \in 1..Len(ourPath) : ourPath[i] \in Range(theirPath)}
    IN IF hits = {} THEN [err |-> "ErrNoCommonSnapshot", id |-> NoId]
       ELSE [err |-> "nil", id |-> ourPath[Min(hits)]]

\* a set of ids as a sequence, descendants before ancestors (larger ids first)
RECURSIVE DescSeq(_)
DescSeq(S) ==
    IF S = {} THEN <<>>
    ELSE LET m == CHOOSE x \in S : \A y \in S : y <= x IN <<m>> \o DescSeq(S \ {m})

\* getChangesFromTree: dfsPrev from the heads over the in-memory tree
getChangesFromTree(dd) ==
    LET hs == dd.tree.headIds \cap dd.tree.attached
        all == hs \cup ((UNION {Ancestors(h) : h \in hs}) \cap dd.tree.attached)
    IN [err |-> "nil", rawChanges |-> DescSeq(all)]

\* treeBuilder.dfs from the heads through storage, stopping before the breakpoint
RECURSIVE dfs(_, _, _, _)
dfs(dd, stack, breakpoint, visited) ==
    LET nxt == ((UNION {Change(c).PreviousIds : c \in stack \cap dd.stChanges})
                   \ visited) \ {breakpoint}
    IN IF nxt = {} THEN visited ELSE dfs(dd, nxt, breakpoint, visited \cup nxt)

\* getChangesFromDB: the changes the dfs loads, then the snapshot itself if asked
getChangesFromDB(dd, commonSnapshot, needStartSnapshot) ==
    LET start == dd.tree.headIds \ {commonSnapshot}
        got == dfs(dd, start, commonSnapshot, start)
        withStart == IF needStartSnapshot THEN Append(DescSeq(got), commonSnapshot)
                     ELSE DescSeq(got)
    IN IF ~(got \subseteq dd.stChanges)
       THEN [err |-> "LoadError", rawChanges |-> <<>>]
       ELSE IF needStartSnapshot /\ commonSnapshot \notin dd.stChanges
       THEN [err |-> "LoadError", rawChanges |-> DescSeq(got)]
       ELSE [err |-> "nil", rawChanges |-> withStart]

\* ChangesAfterCommonSnapshot; ourPath[len(ourPath)-1] panics on an empty path
ChangesAfterCommonSnapshot(dd, theirPath) ==
    LET needFullDocument == Len(theirPath) = 0
        ourPath == SnapshotPath(dd)
        common == IF needFullDocument
                  THEN [err |-> "nil", id |-> ourPath[Len(ourPath)]]
                  ELSE commonSnapshotForTwoPaths(ourPath, theirPath)
    IN IF Len(ourPath) = 0 THEN [err |-> "panic", rawChanges |-> <<>>]
       ELSE IF common.err # "nil" THEN [err |-> common.err, rawChanges |-> <<>>]
       ELSE IF common.id = RootId(dd.tree) THEN getChangesFromTree(dd)
       ELSE getChangesFromDB(dd, common.id, needFullDocument)

(***************************************************************************)
(* One docTree, one caller at a time.                                      *)
(***************************************************************************)
\* BuildDocTree over a storage that holds the first change only
InitDocTree ==
    [tree |-> [attached |-> {RootChange}, unAttached |-> {},
               headIds |-> {RootChange}, rootId |-> RootChange],
     snapshotPath |-> <<>>,
     stChanges |-> {RootChange},
     stHeads |-> {RootChange}]

InitRes ==
    [batch |-> <<>>, op |-> "BuildDocTree", mode |-> ModeZero, addResult |-> ZeroAddResult,
     failAt |-> 0, err |-> "nil", nAddRawChange |-> 0, nSetHeads |-> 0, notify |-> "Rebuild"]

\* the batches a caller hands in: raw changes without repetition, at most MaxBatch
RECURSIVE SeqsUpTo(_, _)
SeqsUpTo(S, n) ==
    IF n = 0 THEN {<<>>}
    ELSE LET shorter == SeqsUpTo(S, n - 1)
         IN shorter \cup {Append(q, x) : q \in {p \in shorter : Len(p) = n - 1},
                                          x \in S}

Batches(S) == {q \in SeqsUpTo(S, MaxBatch) : \A i, j \in 1..Len(q) : i # j => q[i] # q[j]}

InitTree ==
    /\ d = InitDocTree
    /\ created = << >>
    /\ res = InitRes
    /\ calls = 0

\* the call returns: the tree and the storage are as the call left them
Returned(out) ==
    /\ d' = out.d
    /\ res' = out.res
    /\ calls' = calls + 1

AddRawChangesReturns(rawChanges, r) ==
    \E failAt \in FailPoints(r) : Returned(AddRawChangesFrom(d, rawChanges, r, failAt))

DoAddRawChanges ==
    /\ calls < MaxCalls
    /\ \E rawChanges \in Batches(RemoteIds \cup DOMAIN created) :
          AddRawChangesReturns(rawChanges, addRawChanges(d, rawChanges))
    /\ UNCHANGED <<created, convVars, lockVars, aclVars, cacheVars, nodeVars>>

DoAddContent ==
    /\ calls < MaxCalls
    /\ Cardinality(DOMAIN created) < MaxLocal
    /\ \E identity \in {"bob", "carol"}, isSnapshot \in BOOLEAN, readKeyOk \in BOOLEAN :
        \E failAt \in (IF readKeyOk THEN 0..2 ELSE {0}) :
            LET id == NewLocalId
                out == AddContent(d, id, isSnapshot, readKeyOk, failAt)
            IN /\ created' = IF readKeyOk
                             THEN created @@ (id :> AddContentChange(d, identity, isSnapshot))
                             ELSE created
               /\ d' = out.d
               /\ res' = out.res
               /\ calls' = calls + 1
               /\ UNCHANGED <<convVars, lockVars, aclVars, cacheVars, nodeVars>>

(***************************************************************************)
(* Properties of one docTree.                                              *)
(***************************************************************************)
\* a step that is a call of AddRawChanges
IsAddRawChanges == calls' = calls + 1 /\ res'.op = "AddRawChanges"

\* the author of the change holds no Writer (or higher) permission at its ACL record
LacksWriter(id) ==
    LET p == PermissionsAtRecord(Change(id).AclHeadId, Change(id).Identity)
    IN p.err # "nil" \/ p.Permission \notin {"Admin", "Writer"}

\* C1: attachment completeness -- after any sequence of AddRawChanges calls,
\* every attached change other than the root has all its prev_ids attached.
C1_AttachmentComplete ==
    \A c \in d.tree.attached \ {d.tree.rootId} :
        Change(c).PreviousIds \subseteq d.tree.attached

\* C2: head correctness -- Heads() is exactly the set of attached changes
\* that no attached change lists as a parent, in every reachable state.
C2_HeadsCorrect == Range(Heads(d.tree)) = HeadsOf(d.tree.attached)

\* C3: a batch the validator rejects returns HasInvalidChanges and leaves
\* attached, unattached, heads and root as they were before the call.
C3_RollbackRestores ==
    [][(IsAddRawChanges /\ res'.err = "ErrHasInvalidChanges") => d'.tree = d.tree]_vars

\* C4: a new raw change whose author lacks Writer permission at its ACL record
\* is rejected; afterwards HasChange(id) is false and the heads are unchanged.
C4_UnauthorizedRejected ==
    [][IsAddRawChanges =>
         \A i \in 1..Len(res'.batch) :
            (/\ LacksWriter(res'.batch[i])
             /\ ~HasChange(d, res'.batch[i])
             /\ Change(res'.batch[i]).PreviousIds \subseteq d.tree.attached) =>
                /\ res'.err # "nil"
                /\ ~HasChange(d', res'.batch[i])
                /\ Heads(d'.tree) = Heads(d.tree)]_vars

\* C5: batches are atomic -- on return of AddRawChanges (validation passed or
\* not needed, storage writes possibly failing) either all added changes are
\* stored and the stored heads are the new tree heads, or the tree heads and
\* the stored heads both are what they were before the call.
C5_BatchAtomic ==
    [][(IsAddRawChanges /\ res'.err \in {"nil", "StorageError"}) =>
         \/ /\ Range(res'.addResult.Added) \subseteq d'.stChanges
            /\ d'.stHeads = d'.tree.headIds
         \/ /\ d'.tree.headIds = d.tree.headIds
            /\ d'.stHeads = d.stHeads]_vars

\* C6: idempotent ingest -- AddRawChanges(xs) right after a successful
\* AddRawChanges(xs) yields Nothing and makes no storage write at all.
C6_IdempotentIngest ==
    [][(IsAddRawChanges /\ res.op = "AddRawChanges" /\ res.err = "nil"
        /\ res'.batch = res.batch /\ res'.batch # <<>>) =>
         /\ res'.err = "nil"
         /\ res'.addResult.Summary = "Nothing"
         /\ res'.nAddRawChange = 0
         /\ res'.nSetHeads = 0]_vars

\* C10: a successful AddRawChanges returns old_heads = the heads at entry,
\* heads = the heads after the batch, added = the batch's changes that became
\* attached; appending <<1, 2>> on the root gives Append, heads <<2>>, added <<1, 2>>.
C10_ResultDescribesCall ==
    [][(IsAddRawChanges /\ res'.err = "nil") =>
         /\ res'.addResult.OldHeads = Heads(d.tree)
         /\ res'.addResult.Heads = Heads(d'.tree)
         /\ {c \in Range(res'.batch) : ~HasChange(d, c) /\ c \in d'.tree.attached}
               \subseteq Range(res'.addResult.Added)
         /\ Range(res'.addResult.Added) \subseteq {c \in Range(res'.batch) : ~HasChange(d, c)}
         /\ ((d = InitDocTree /\ res'.batch = <<1, 2>>) =>
                /\ res'.addResult.Summary = "Append"
                /\ res'.addResult.Heads = <<2>>
                /\ res'.addResult.Added = <<1, 2>>)]_vars

\* the tree after <<2>> arrived on the first change alone: 2 waits for its parent 1
ParkedTree == [attached |-> {RootChange}, unAttached |-> {2},
               headIds |-> {RootChange}, rootId |-> RootChange]

\* C11: out of order -- adding <<2>> (prev 1) on the root leaves the heads at
\* the root and holds 2 unattached; adding <<1>> (prev root) after that
\* attaches 2 and makes it the only head.
C11_OutOfOrder ==
    [][(IsAddRawChanges /\ res'.err = "nil") =>
         /\ (d = InitDocTree /\ res'.batch = <<2>>) =>
               /\ Heads(d'.tree) = <<RootChange>>
               /\ d'.tree = ParkedTree
               /\ HasChange(d', 2)
         /\ (d.tree = ParkedTree /\ res'.batch = <<1>>) =>
               /\ {1, 2} \subseteq d'.tree.attached
               /\ d'.tree.unAttached = {}
               /\ Heads(d'.tree) = <<2>>]_vars

\* 2 arrived first and was attached by the later call that brought 1
C11_Witness ==
    /\ res.op = "AddRawChanges" /\ res.batch = <<1>> /\ res.err = "nil"
    /\ calls = 2
    /\ d.tree.attached = {0, 1, 2}
    /\ 2 \notin d.stChanges
    /\ Heads(d.tree) = <<2>>

\* C29: after a successful AddRawChanges on a tree whose attached changes
\* were all stored, every attached change is stored and every stored head
\* names a stored change -- also a change that an earlier call left
\* unattached and that this call attached.
C29_AttachedStored ==
    [][(IsAddRawChanges /\ res'.err = "nil" /\ d.tree.attached \subseteq d.stChanges) =>
         /\ d'.tree.attached \subseteq d'.stChanges
         /\ d'.stHeads \subseteq d'.stChanges]_vars

\* the raw changes of a batch that the tree dd does not know
Candidates(dd, batch) == {batch[i] : i \in {k \in 1..Len(batch) : ~HasChange(dd, batch[k])}}

\* some candidate's snapshot is neither the root nor a snapshot among the
\* candidates of the batch
DescendsFromOlder(dd, batch) ==
    \E c \in Candidates(dd, batch) :
        /\ Change(c).SnapshotId # RootId(dd.tree)
        /\ Change(c).SnapshotId \notin {s \in Candidates(dd, batch) : Change(s).IsSnapshot}

RebuildErrs == {"LoadError", "ErrMultipleRoots", "invalid"}

C32_NotifyMatchesSummary ==
    [][(IsAddRawChanges /\ res'.err = "nil") =>
         /\ res'.notify = "Update" <=> res'.addResult.Summary = "Append"
         /\ res'.notify = "Rebuild" <=> res'.addResult.Summary = "Rebuild"
         /\ res'.notify = "none" <=> res'.addResult.Summary = "Nothing"]_vars

\* C33: after a successful AddContent the new change's PreviousIds are the
\* heads from before the call, the heads of the tree and the stored heads are
\* the new change alone, and a snapshot is also the root of the tree.
C33_AddContentHeads ==
    [][(calls' = calls + 1 /\ res'.op = "AddContent" /\ res'.err = "nil") =>
         LET id == res'.batch[1]
         IN /\ id \in DOMAIN created' /\ id \notin DOMAIN created
            /\ created'[id].PreviousIds = d.tree.headIds
            /\ d'.tree.headIds = {id}
            /\ d'.stHeads = {id}
            /\ id \in d'.stChanges
            /\ created'[id].IsSnapshot => d'.tree.rootId = id]_vars

\* a snapshot written on a fork: it merges two heads and is the new root
C33_Witness ==
    /\ res.op = "AddContent" /\ res.err = "nil"
    /\ Cardinality(created[res.batch[1]].PreviousIds) = 2
    /\ created[res.batch[1]].IsSnapshot
    /\ d.tree.rootId = res.batch[1] /\ d.stHeads = {res.batch[1]}

(***************************************************************************)
(* One docTree whose process may stop between the writes of a batch and    *)
(* SetHeads, and is started again over the same storage.                   *)
(***************************************************************************)
\* BuildDocTree over the storage of dd: the tree is rebuilt from storage and
\* the stored heads are set to the rebuilt heads when they differ
BuildDocTree(dd) ==
    LET r == rebuildFromStorage(dd, {})
    IN IF r.err # "nil"
       THEN [d |-> dd,
             res |-> [InitRes EXCEPT !.err = r.err, !.notify = "none"]]
       ELSE [d |-> [dd EXCEPT !.tree = r.tree, !.snapshotPath = <<>>,
                              !.stHeads = r.tree.headIds],
             res |-> [InitRes EXCEPT !.nSetHeads = IF dd.stHeads # r.tree.headIds
                                                    THEN 1 ELSE 0]]

\* a call of AddRawChanges while the process is up
Serve ==
    /\ res.op # "Stopped"
    /\ DoAddRawChanges

\* AddRawChanges of a batch that validates; the process stops after the last
\* AddRawChange and before SetHeads
stopped(rawChanges, r) ==
    LET out == storeAdded(d, rawChanges, r, Len(r.addResult.Added) + 1, reduceTree(r.tree))
    IN /\ r.err = "nil"
       /\ d' = out.d
       /\ res' = [out.res EXCEPT !.op = "Stopped", !.err = "Stopped", !.nSetHeads = 0]

StopBeforeSetHeads ==
    /\ res.op # "Stopped"
    /\ calls < MaxCalls
    /\ \E rawChanges \in Batches(RemoteIds) : stopped(rawChanges, addRawChanges(d, rawChanges))
    /\ calls' = calls + 1
    /\ UNCHANGED <<created, convVars, lockVars, aclVars, cacheVars, nodeVars>>

\* the next startup
Restart ==
    /\ res.op = "Stopped"
    /\ d' = BuildDocTree(d).d
    /\ res' = BuildDocTree(d).res
    /\ UNCHANGED <<calls, created, convVars, lockVars, aclVars, cacheVars, nodeVars>>

NextCrash == Serve \/ StopBeforeSetHeads \/ Restart

\* C30: when the process stopped after the changes of a validated batch were
\* written and before SetHeads, the build at the next startup attaches those
\* changes again, and when it returns the stored heads are the heads of the
\* rebuilt tree.
C30_OrphansReattached ==
    [][(res.op = "Stopped" /\ res'.op = "BuildDocTree" /\ res'.err = "nil") =>
         /\ Range(res.addResult.Added) \subseteq d'.tree.attached
         /\ d'.stHeads = d'.tree.headIds]_vars

(***************************************************************************)
(* One docTree whose callers also ask for the snapshot path.               *)
(***************************************************************************)
PathIds == {1, 2, 4, 5}

\* AddRawChanges with every storage write succeeding
Ingest ==
    /\ calls < MaxCalls
    /\ \E rawChanges \in Batches(PathIds) : Returned(AddRawChanges(d, rawChanges, 0))
    /\ UNCHANGED <<created, convVars, lockVars, aclVars, cacheVars, nodeVars>>

\* SnapshotPath: what it returns is what it leaves in d.snapshotPath
DoSnapshotPath ==
    /\ d' = WithPath(d)
    /\ res' = [InitRes EXCEPT !.op = "SnapshotPath", !.notify = "none"]
    /\ UNCHANGED <<calls, created, convVars, lockVars, aclVars, cacheVars, nodeVars>>

NextPath == Ingest \/ DoAddContent \/ DoSnapshotPath

\* the snapshot ids from a change back to the first change, by SnapshotId
RECURSIVE LinksToGenesis(_, _)
LinksToGenesis(id, path) ==
    IF id = NoId THEN path ELSE LinksToGenesis(Change(id).SnapshotId, Append(path, id))

\* C12: SnapshotPath() is the list of snapshot ids from the current root back
\* to the genesis, never a memo of an earlier root; after 1, 2 and the
\* snapshot 4 were added in a line on the root the path is <<4, 0>>.
C12_SnapshotPathFromRoot ==
    /\ SnapshotPath(d) = LinksToGenesis(RootId(d.tree), <<>>)
    /\ (d.tree.rootId = 4) => SnapshotPath(d) = <<4, RootChange>>

\* the call's reduceTree moves the root of the tree addRawChanges left
rootAdvances(t) == reduceTree(t).rootId # t.rootId

ReduceAdvancesRoot == IsAddRawChanges /\ rootAdvances(addRawChanges(d, res'.batch).tree)

advancesFrom(t, root) == rootAdvances(t) /\ t.rootId = root

ReduceAdvancesEntryRoot ==
    IsAddRawChanges /\ advancesFrom(addRawChanges(d, res'.batch).tree, d.tree.rootId)

\* the path SnapshotPath() returns is the walk from the present root, not a
\* memo that passes for actual
PathIsWalk(dd) == SnapshotPath(dd) = walkSnapshots(dd, RootId(dd.tree), <<>>)

IdsA == {1, 2, 4, 5}
IdsB == {3}

InitConv == peerA = InitDocTree /\ peerB = InitDocTree /\ phase = "edit"

EditA ==
    /\ phase = "edit"
    /\ \E rawChanges \in Batches(IdsA) :
          peerA' = AddRawChanges(peerA, rawChanges, 0).d
    /\ UNCHANGED <<peerB, phase, treeVars, lockVars, aclVars, cacheVars, nodeVars>>

EditB ==
    /\ phase = "edit"
    /\ \E rawChanges \in Batches(IdsB) :
          peerB' = AddRawChanges(peerB, rawChanges, 0).d
    /\ UNCHANGED <<peerA, phase, treeVars, lockVars, aclVars, cacheVars, nodeVars>>

Exchange ==
    /\ phase = "edit"
    /\ LET fromA == ChangesAfterCommonSnapshot(peerA, SnapshotPath(peerB))
           fromB == ChangesAfterCommonSnapshot(peerB, SnapshotPath(peerA))
       IN /\ fromA.err = "nil" /\ fromB.err = "nil"
          /\ peerA' = AddRawChanges(WithPath(peerA), fromB.rawChanges, 0).d
          /\ peerB' = AddRawChanges(WithPath(peerB), fromA.rawChanges, 0).d
    /\ phase' = "exchanged"
    /\ UNCHANGED <<treeVars, lockVars, aclVars, cacheVars, nodeVars>>

NextConv == EditA \/ EditB \/ Exchange

\* C7: convergence -- after the exchange A and B have equal head sets and
\* equal roots.
C7_Convergence ==
    phase = "exchanged" =>
        /\ peerA.tree.headIds = peerB.tree.headIds
        /\ peerA.tree.rootId = peerB.tree.rootId

(***************************************************************************)
(* One docTree shared by goroutines.  docTree embeds sync.RWMutex and the   *)
(* DocTree interface exposes it (RWLocker); AddRawChanges, addRawChanges    *)
(* and the read accessors contain no call of Lock or RLock, so the lock is  *)
(* taken only where a caller takes it.  A call of AddRawChanges is three    *)
(* steps on the shared tree: Tree.Add, validation (with rollback), and the  *)
(* reduce and storage writes.  rw is the mutex ("free" or its holder), pc   *)
(* each writer's position and locals, cd the shared docTree, seen what the  *)
(* last TreeParams request read.                                           *)
(***************************************************************************)
Writers == {"w1", "w2"}

\* the raw changes the concurrent callers hand in
LockIds == {1, 2, 3, 6}

Idle == [at |-> "idle", rawChanges |-> <<>>, buf |-> <<>>, idx |-> <<>>, added |-> <<>>]

InCall(w) == pc[w].at \in {"added", "checked"}

InitLock ==
    /\ rw = "free"
    /\ pc = [w \in Writers |-> Idle]
    /\ cd = InitDocTree
    /\ seen = [root |-> RootId(InitDocTree.tree), heads |-> Heads(InitDocTree.tree),
               during |-> {}]

\* RWLocker.Lock, called by a caller before it calls into the tree
Lock(w) ==
    /\ pc[w].at = "idle"
    /\ rw = "free"
    /\ rw' = w
    /\ UNCHANGED <<pc, cd, seen, treeVars, convVars, aclVars, cacheVars, nodeVars>>

\* RWLocker.Unlock, called by the holder once its call has returned
Unlock(w) ==
    /\ rw = w
    /\ ~InCall(w)
    /\ rw' = "free"
    /\ UNCHANGED <<pc, cd, seen, treeVars, convVars, aclVars, cacheVars, nodeVars>>

\* addRawChanges up to and with d.tree.Add: the filtering loop, then the Add
AddStep(w) ==
    /\ pc[w].at = "idle"
    /\ \E rawChanges \in Batches(LockIds) :
        LET notSeenIdxBuf == notSeenIdx(cd, rawChanges, Len(rawChanges))
            tmpChangesBuf == [k \in 1..Len(notSeenIdxBuf) |-> rawChanges[notSeenIdxBuf[k]]]
            a == TreeAdd(cd.tree, Range(tmpChangesBuf))
        IN /\ rawChanges # <<>>
           /\ IF Len(notSeenIdxBuf) = 0 \/ a.mode = "Nothing"
              THEN /\ cd' = [cd EXCEPT !.tree = a.tree]
                   /\ pc' = [pc EXCEPT ![w] = [at |-> "checked", rawChanges |-> rawChanges,
                                               buf |-> tmpChangesBuf, idx |-> notSeenIdxBuf,
                                               added |-> <<>>]]
              ELSE /\ cd' = [cd EXCEPT !.tree = a.tree]
                   /\ pc' = [pc EXCEPT ![w] = [at |-> "added", rawChanges |-> rawChanges,
                                               buf |-> tmpChangesBuf, idx |-> notSeenIdxBuf,
                                               added |-> <<>>]]
    /\ UNCHANGED <<rw, seen, treeVars, convVars, aclVars, cacheVars, nodeVars>>

\* addRawChanges after d.tree.Add: validateTree, rollback if it fails (the call
\* then returns ErrHasInvalidChanges), else getAddedChanges
ValidateStep(w) ==
    /\ pc[w].at = "added"
    /\ IF ValidateTree(cd.tree) # "nil"
       THEN /\ cd' = [cd EXCEPT !.tree = rollback(cd.tree, pc[w].buf)]
            /\ pc' = [pc EXCEPT ![w] = [@ EXCEPT !.at = "done"]]
       ELSE /\ cd' = cd
            /\ pc' = [pc EXCEPT ![w] = [@ EXCEPT !.at = "checked",
                          !.added = getAddedChanges(cd.tree, pc[w].rawChanges, pc[w].idx)]]
    /\ UNCHANGED <<rw, seen, treeVars, convVars, aclVars, cacheVars, nodeVars>>

\* AddRawChanges after addRawChanges returned nil: reduceTree, AddRawChange of
\* every added change, SetHeads
PersistStep(w) ==
    /\ pc[w].at = "checked"
    /\ LET t == reduceTree(cd.tree)
       IN cd' = [cd EXCEPT !.tree = t,
                           !.stChanges = @ \cup Range(pc[w].added),
                           !.stHeads = t.headIds]
    /\ pc' = [pc EXCEPT ![w] = [@ EXCEPT !.at = "done"]]
    /\ UNCHANGED <<rw, seen, treeVars, convVars, aclVars, cacheVars, nodeVars>>

\* rpcHandler.TreeParams: tree.Root().Id and tree.Heads(), read without RLock
TreeParams ==
    /\ seen' = [root |-> RootId(cd.tree), heads |-> Heads(cd.tree),
                during |-> {w \in Writers : InCall(w)}]
    /\ seen' # seen
    /\ UNCHANGED <<rw, pc, cd, treeVars, convVars, aclVars, cacheVars, nodeVars>>

NextLock ==
    \/ \E w \in Writers : Lock(w)
    \/ \E w \in Writers : Unlock(w)
    \/ \E w \in Writers : AddStep(w)
    \/ \E w \in Writers : ValidateStep(w)
    \/ \E w \in Writers : PersistStep(w)
    \/ TreeParams

\* C9: AddRawChanges holds the writer lock for its whole critical section and
\* the read accessors hold the reader lock, so two writers on one tree never
\* interleave and a reader never observes a partially applied batch.
C9_WritersSerialize ==
    /\ \A w \in Writers : InCall(w) => rw = w
    /\ \A v, w \in Writers : (InCall(v) /\ InCall(w)) => v = w
    /\ seen.during = {}

(***************************************************************************)
(* ACL state (common/pkg/acl/list/aclstate.go).  The ACL records are       *)
(* replayed by two replicas: one built by newACLStateWithKeys for the      *)
(* identity "alice", one built by newACLState, which has no identity and   *)
(* no keys.  A sealed read key is modelled by the hash of the key it       *)
(* holds, or by BadSeal when it cannot be decrypted.                       *)
(***************************************************************************)
MaxRecords == 3     \* records replayed by a replica, the root included

Users == {"alice", "bob"}
Perms == {"Admin", "Writer"}
AcceptKeys == {"k1"}
Signers == {"k1", "forged"}
Hashes == {1, 2}
BadSeal == 0
NoIdentity == ""
Replicas == {"alice", NoIdentity}
AclRootId == 0
RootIdentity == "alice"

\* newACLStateWithKeys (55-73) and newACLState (75-83)
newACLState(id, identity) ==
    [id |-> id, identity |-> identity, currentReadKeyHash |-> 0,
     userReadKeys |-> {}, userStates |-> <<>>, userInvites |-> <<>>,
     totalReadKeys |-> 0, permissionsAtRecord |-> <<>>]

\* a map write m[k] = v
MapSet(m, k, v) == [x \in DOMAIN m \cup {k} |-> IF x = k THEN v ELSE m[x]]
\* delete(m, k)
MapDelete(m, k) == [x \in DOMAIN m \ {k} |-> m[x]]

\* decryptReadKeyAndHash: the key and its hash, or ErrFailedToDecrypt
decryptReadKeyAndHash(msg) ==
    IF msg = BadSeal THEN [err |-> "ErrFailedToDecrypt", hash |-> 0]
    ELSE [err |-> "nil", hash |-> msg]

\* the loop `for _, key := range EncryptedReadKeys` of applyUserJoin and
\* applyUserAdd: keys are stored until the first one that fails to decrypt
RECURSIVE decryptAll(_, _, _)
decryptAll(st, keys, i) ==
    IF i > Len(keys) THEN [st |-> st, err |-> "nil"]
    ELSE IF decryptReadKeyAndHash(keys[i]).err # "nil"
         THEN [st |-> st, err |-> "ErrFailedToDecrypt"]
         ELSE decryptAll([st EXCEPT !.userReadKeys = @ \cup {keys[i]}], keys, i + 1)

hasPermission(st, identity, permission) ==
    identity \in DOMAIN st.userStates /\ st.userStates[identity] = permission

isUserJoin(data) == Len(data) > 0 /\ data[1].type = "UserJoin"

applyUserPermissionChange(st, ch) ==
    IF ch.Identity \notin DOMAIN st.userStates
    THEN [st |-> st, err |-> "ErrNoSuchUser"]
    ELSE [st |-> [st EXCEPT !.userStates = MapSet(@, ch.Identity, ch.Permissions)],
          err |-> "nil"]

applyUserInvite(st, ch) ==
    [st |-> [st EXCEPT !.userInvites = MapSet(@, ch.AcceptPublicKey, ch.Permissions)],
     err |-> "nil"]

\* verificationKey.Verify(ch.Identity, signature)
Verify(acceptKey, identity, signature) ==
    signature = [signer |-> acceptKey, over |-> identity]

joined(st, ch) ==
    [st EXCEPT !.userStates = MapSet(@, ch.Identity, st.userInvites[ch.AcceptPubKey])]

applyUserJoin(st, ch) ==
    IF ch.AcceptPubKey \notin DOMAIN st.userInvites
    THEN [st |-> st, err |-> "no such invite"]
    ELSE IF ch.Identity \in DOMAIN st.userStates
    THEN [st |-> st, err |-> "ErrUserAlreadyExists"]
    ELSE IF ~Verify(ch.AcceptPubKey, ch.Identity, ch.AcceptSignature)
    THEN [st |-> st, err |-> "ErrInvalidSignature"]
    ELSE IF st.identity = ch.Identity
    THEN IF decryptAll(st, ch.EncryptedReadKeys, 1).err # "nil"
         THEN decryptAll(st, ch.EncryptedReadKeys, 1)
         ELSE [st |-> joined(decryptAll(st, ch.EncryptedReadKeys, 1).st, ch), err |-> "nil"]
    ELSE [st |-> joined(st, ch), err |-> "nil"]

added(st, ch) == [st EXCEPT !.userStates = MapSet(@, ch.Identity, ch.Permissions)]

applyUserAdd(st, ch) ==
    IF ch.Identity \in DOMAIN st.userStates
    THEN [st |-> st, err |-> "ErrUserAlreadyExists"]
    ELSE IF ch.Identity = st.identity
    THEN decryptAll(added(st, ch), ch.EncryptedReadKeys, 1)
    ELSE [st |-> added(st, ch), err |-> "nil"]

\* the loop over ch.ReadKeyReplaces: the first entry for our identity is
\* decrypted and stored, then the loop breaks
RECURSIVE readKeyReplace(_, _, _)
readKeyReplace(st, replaces, i) ==
    IF i > Len(replaces) THEN [st |-> st, err |-> "nil"]
    ELSE IF replaces[i].Identity = st.identity
    THEN IF decryptReadKeyAndHash(replaces[i].EncryptedReadKey).err # "nil"
         THEN [st |-> st, err |-> "ErrFailedToDecrypt"]
         ELSE [st |-> [st EXCEPT !.userReadKeys = @ \cup {replaces[i].EncryptedReadKey}],
               err |-> "nil"]
    ELSE readKeyReplace(st, replaces, i + 1)

applyUserRemove(st, ch) ==
    IF ch.Identity = st.identity
    THEN [st |-> st, err |-> "ErrDocumentForbidden"]
    ELSE IF ch.Identity \notin DOMAIN st.userStates
    THEN [st |-> st, err |-> "ErrNoSuchUser"]
    ELSE readKeyReplace([st EXCEPT !.userStates = MapDelete(@, ch.Identity)],
                        ch.ReadKeyReplaces, 1)

applyChangeContent(st, ch) ==
    CASE ch.type = "UserPermissionChange" -> applyUserPermissionChange(st, ch)
      [] ch.type = "UserAdd" -> applyUserAdd(st, ch)
      [] ch.type = "UserRemove" -> applyUserRemove(st, ch)
      [] ch.type = "UserInvite" -> applyUserInvite(st, ch)
      [] ch.type = "UserJoin" -> applyUserJoin(st, ch)
      [] OTHER -> [st |-> st, err |-> "unexpected change type"]

\* the loop `for _, ch := range changeData.GetAclContent()`: what the items
\* before a failing one did stays done
RECURSIVE applyItems(_, _, _)
RECURSIVE applyItemsNext(_, _, _)
applyItems(st, data, i) ==
    IF i > Len(data) THEN [st |-> st, err |-> "nil"]
    ELSE applyItemsNext(applyChangeContent(st, data[i]), data, i)

applyItemsNext(r, data, i) ==
    IF r.err # "nil" THEN r ELSE applyItems(r.st, data, i + 1)

\* the deferred function of applyChangeData
rotate(r, hash) ==
    IF r.err = "nil" /\ hash # r.st.currentReadKeyHash
    THEN [r EXCEPT !.st.totalReadKeys = @ + 1, !.st.currentReadKeyHash = hash]
    ELSE r

authorChecked(st, data, identity) ==
    IF isUserJoin(data) THEN "nil"
    ELSE IF identity \notin DOMAIN st.userStates THEN "ErrNoSuchUser"
    ELSE IF ~hasPermission(st, identity, "Admin") THEN "must have admin permissions"
    ELSE "nil"

applyChangeData(st, changeData, hash, identity) ==
    IF authorChecked(st, changeData, identity) # "nil"
    THEN [st |-> st, err |-> authorChecked(st, changeData, identity)]
    ELSE rotate(applyItems(st, changeData, 1), hash)

\* saveReadKeyFromRoot: the read key of the root is derived or decrypted and
\* its hash compared with the root's
saveReadKeyFromRoot(st, root) ==
    IF decryptReadKeyAndHash(root.EncryptedReadKey).err # "nil"
    THEN [st |-> st, err |-> "ErrFailedToDecrypt"]
    ELSE IF root.EncryptedReadKey # root.CurrentReadKeyHash
    THEN [st |-> st, err |-> "ErrIncorrectRoot"]
    ELSE [st |-> [st EXCEPT !.currentReadKeyHash = root.CurrentReadKeyHash,
                            !.userReadKeys = @ \cup {root.CurrentReadKeyHash},
                            !.totalReadKeys = @ + 1],
          err |-> "nil"]

rootUser(r, root) ==
    IF r.err # "nil" THEN r
    ELSE [r EXCEPT !.st.userStates = MapSet(@, root.Identity, "Admin")]

applyRoot(st, root) ==
    IF st.identity # NoIdentity /\ st.identity = root.Identity
    THEN rootUser(saveReadKeyFromRoot(st, root), root)
    ELSE rootUser([st |-> st, err |-> "nil"], root)

\* the permissions of all users at the record
permissionsOf(st) ==
    {[Identity |-> u, Permission |-> st.userStates[u]] : u \in DOMAIN st.userStates}

recorded(r, id) ==
    IF r.err # "nil" THEN r
    ELSE [r EXCEPT !.st.permissionsAtRecord = MapSet(@, id, permissionsOf(r.st))]

applyRecord(st, record) ==
    IF record.Id = st.id
    THEN IF record.type # "ACLRoot"
         THEN [st |-> st, err |-> "ErrIncorrectRoot"]
         ELSE applyRoot([st EXCEPT !.permissionsAtRecord =
                             MapSet(@, record.Id, {[Identity |-> record.Identity,
                                                    Permission |-> "Admin"]})],
                        record)
    ELSE recorded(applyChangeData(st, record.Model, record.CurrentReadKeyHash,
                                  record.Identity),
                  record.Id)

(***************************************************************************)
(* Replaying ACL records.  The content items a record may carry:           *)
(***************************************************************************)
MaxItems == 2       \* content items in one record

\* the entries of a UserRemove sealing the key to the identities of S
SealTo(S, key) ==
    [i \in 1..Len(SelectSeq(<<"alice", "bob">>, LAMBDA u : u \in S)) |->
        [Identity |-> SelectSeq(<<"alice", "bob">>, LAMBDA u : u \in S)[i],
         EncryptedReadKey |-> key]]

UserAddItems ==
    {[type |-> "UserAdd", Identity |-> u, Permissions |-> p, EncryptedReadKeys |-> <<2>>] :
        u \in Users, p \in Perms}
UserRemoveItems ==
    {[type |-> "UserRemove", Identity |-> u, ReadKeyReplaces |-> rs] :
        u \in Users, rs \in {<<>>, SealTo(Users, 2)}}
        \cup {[type |-> "UserRemove", Identity |-> "bob",
               ReadKeyReplaces |-> SealTo(Users, BadSeal)]}
UserInviteItems ==
    {[type |-> "UserInvite", AcceptPublicKey |-> k, Permissions |-> p] :
        k \in AcceptKeys, p \in Perms}
UserJoinItems ==
    {[type |-> "UserJoin", Identity |-> u, AcceptPubKey |-> k,
      AcceptSignature |-> [signer |-> s, over |-> u], EncryptedReadKeys |-> <<1>>] :
        u \in Users, k \in AcceptKeys, s \in Signers}
UserPermissionChangeItems ==
    {[type |-> "UserPermissionChange", Identity |-> u, Permissions |-> p] :
        u \in Users, p \in Perms}
Items ==
    UserAddItems \cup UserRemoveItems \cup UserInviteItems \cup UserJoinItems
        \cup UserPermissionChangeItems

Contents == UNION {[1..n -> Items] : n \in 0..MaxItems}

NoRecord == [Id |-> -1, type |-> "none", Identity |-> NoIdentity,
             CurrentReadKeyHash |-> 0, Model |-> <<>>]

InitAcl ==
    /\ aclState = [r \in Replicas |-> newACLState(AclRootId, r)]
    /\ aclRes = [n |-> 0, record |-> NoRecord, err |-> [r \in Replicas |-> "nil"]]

\* every replica replays the record
Replay(record) ==
    /\ aclState' = [r \in Replicas |-> applyRecord(aclState[r], record).st]
    /\ aclRes' = [n |-> aclRes.n + 1, record |-> record,
                  err |-> [r \in Replicas |-> applyRecord(aclState[r], record).err]]
    /\ UNCHANGED <<treeVars, convVars, lockVars, cacheVars, nodeVars>>

\* the root record of the list: the genesis identity and the first read key
ReplayRoot ==
    /\ aclRes.n = 0
    /\ Replay([Id |-> AclRootId, type |-> "ACLRoot", Identity |-> RootIdentity,
               CurrentReadKeyHash |-> 1, EncryptedReadKey |-> 1, Model |-> <<>>])

\* a later record of the list
ReplayRecord ==
    /\ aclRes.n \in 1..(MaxRecords - 1)
    /\ \E identity \in Users, hash \in Hashes, data \in Contents :
          Replay([Id |-> aclRes.n, type |-> "ACLData", Identity |-> identity,
                  CurrentReadKeyHash |-> hash, Model |-> data])

NextAcl == ReplayRoot \/ ReplayRecord

(***************************************************************************)
(* Claims about the ACL state, under SpecAcl.                              *)
(***************************************************************************)
\* the step replays a record on every replica
IsReplay == aclRes'.n = aclRes.n + 1
Applied(r) == IsReplay /\ aclRes'.err[r] = "nil"
ItemsOf(record, type) == {i \in 1..Len(record.Model) : record.Model[i].type = type}
OtherItems(record, type) == {i \in 1..Len(record.Model) : record.Model[i].type # type}
Admins(st) == {u \in DOMAIN st.userStates : st.userStates[u] = "Admin"}
\* the UserRemove seals the key of the record to the user
SealsFor(ch, u, hash) ==
    \E j \in 1..Len(ch.ReadKeyReplaces) :
        ch.ReadKeyReplaces[j] = [Identity |-> u, EncryptedReadKey |-> hash]

\* C14: after a record containing a UserRemove is applied, the current
\* read-key hash differs from its value before the record and the record
\* carried a sealed read key for every user that remains.
C14_ReadKeyRotation ==
    [][\A r \in Replicas :
          (Applied(r) /\ ItemsOf(aclRes'.record, "UserRemove") # {}) =>
              /\ aclState'[r].currentReadKeyHash # aclState[r].currentReadKeyHash
              /\ \A i \in ItemsOf(aclRes'.record, "UserRemove") :
                    \A u \in DOMAIN aclState'[r].userStates :
                        SealsFor(aclRes'.record.Model[i], u,
                                 aclRes'.record.CurrentReadKeyHash)]_vars

\* C15: a record with a content item other than UserJoin is applied only if
\* its author held Admin, and a record in which a UserJoin is accompanied by
\* another item is rejected.
C15_AdminOrSoleJoin ==
    [][\A r \in Replicas :
          Applied(r) =>
              /\ (OtherItems(aclRes'.record, "UserJoin") # {}) =>
                    aclRes'.record.Identity \in Admins(aclState[r])
              /\ (ItemsOf(aclRes'.record, "UserJoin") # {}) =>
                    Len(aclRes'.record.Model) = 1]_vars

\* C16: a record whose UserRemove targets the record's own author is
\* rejected by every replica and the author remains in userStates.
C16_NoSelfRemove ==
    [][\A r \in Replicas :
          (/\ IsReplay
           /\ aclRes'.record.Identity \in DOMAIN aclState[r].userStates
           /\ \E i \in ItemsOf(aclRes'.record, "UserRemove") :
                 aclRes'.record.Model[i].Identity = aclRes'.record.Identity) =>
              /\ aclRes'.err[r] # "nil"
              /\ aclRes'.record.Identity \in DOMAIN aclState'[r].userStates]_vars

\* C17: after the root record and any sequence of records, at least one
\* user holds Admin.
C17_AdminRemains ==
    \A r \in Replicas : aclRes.n >= 1 => Admins(aclState[r]) # {}

\* C38: after the root record is applied, on every replica, with or without
\* the keys of the genesis identity, the current read-key hash is the hash
\* the root carries and the genesis identity is the only user, an Admin.
C38_RootState ==
    [][\A r \in Replicas :
          (Applied(r) /\ aclRes'.record.type = "ACLRoot") =>
              /\ aclState'[r].currentReadKeyHash = aclRes'.record.CurrentReadKeyHash
              /\ aclState'[r].userStates = (aclRes'.record.Identity :> "Admin")]_vars

\* C40: a record other than the root that applyRecord rejects leaves the ACL
\* state as it was before the call, also when an item of the record had been
\* applied before a later item failed.
C40_RejectedRecordLeavesState ==
    [][\A r \in Replicas :
          (IsReplay /\ aclRes'.record.type # "ACLRoot" /\ aclRes'.err[r] # "nil") =>
              aclState'[r] = aclState[r]]_vars

(***************************************************************************)
(* The tree cache (treeCache, unnamed/part_000) over an ocache.  The       *)
(* ocache is keyed by the id handed to Get; the space id and the create    *)
(* payload travel in the context of the call that starts the load.         *)
(***************************************************************************)
MaxGets == 2        \* calls each getter makes on the tree cache

Getters == {"g1", "g2"}
Spaces == {"sA", "sB"}
ObjectIds == {"o1"}
NoEntry == 0
NoDoc == [space |-> "", id |-> "", created |-> FALSE, load |-> 0]

IdleGetter ==
    [pc |-> "idle", space |-> "", id |-> "", create |-> FALSE, e |-> NoEntry,
     gets |-> 0, doc |-> NoDoc, err |-> "nil"]

NoRound == [members |-> {}, loads |-> 0, results |-> {}, open |-> FALSE, failed |-> FALSE]

InitCache ==
    /\ ocache = [data |-> <<>>, entries |-> <<>>]
    /\ getters = [g \in Getters |-> IdleGetter]
    /\ rounds = [id \in ObjectIds |-> NoRound]

\* the getters that are inside a call on the id and belong to its round
active(id) ==
    {h \in Getters : getters[h].pc # "idle" /\ getters[h].id = id
                        /\ h \in rounds[id].members}

\* a round of concurrent calls on an id that is not loaded begins with the
\* first call and takes in the calls that start before any of them returned
roundAtCall(g, id) ==
    IF active(id) = {} /\ id \notin DOMAIN ocache.data
    THEN [members |-> {g}, loads |-> 0, results |-> {}, open |-> TRUE, failed |-> FALSE]
    ELSE IF active(id) # {} /\ rounds[id].open
    THEN [rounds[id] EXCEPT !.members = @ \cup {g}]
    ELSE [rounds[id] EXCEPT !.members = @ \ {g}]

call(g, spaceId, id, create) ==
    /\ getters' = [getters EXCEPT ![g] =
                      [pc |-> "get", space |-> spaceId, id |-> id, create |-> create,
                       e |-> NoEntry, gets |-> @.gets + 1, doc |-> NoDoc, err |-> "nil"]]
    /\ rounds' = [rounds EXCEPT ![id] = roundAtCall(g, id)]
    /\ UNCHANGED <<ocache, treeVars, convVars, lockVars, aclVars, nodeVars>>

\* treeCache.GetDocument up to c.cache.Get: the space id is put in the context
GetDocument(g) ==
    /\ getters[g].pc = "idle"
    /\ getters[g].gets < MaxGets
    /\ \E spaceId \in Spaces, id \in ObjectIds : call(g, spaceId, id, FALSE)

\* treeCache.CreateDocument up to c.cache.Get: the tree is created in the
\* space, the payload is put in the context, the key is the id of its root
CreateDocument(g) ==
    /\ getters[g].pc = "idle"
    /\ getters[g].gets < MaxGets
    /\ \E spaceId \in Spaces, id \in ObjectIds : call(g, spaceId, id, TRUE)

\* ocache.Get under the bookkeeping lock when the key has an entry
getExisting(oc, id) ==
    [oc EXCEPT !.entries[oc.data[id]].refCount = @ + 1]

\* ocache.Get under the bookkeeping lock when the key has no entry: the
\* first arrival installs the entry the others will wait on
getMissing(oc, id) ==
    [data |-> [k \in DOMAIN oc.data \cup {id} |->
                  IF k = id THEN Len(oc.entries) + 1 ELSE oc.data[k]],
     entries |-> Append(oc.entries,
                        [id |-> id, state |-> "loading", value |-> NoDoc, refCount |-> 1])]

lookup(oc, id) ==
    IF id \in DOMAIN oc.data THEN getExisting(oc, id) ELSE getMissing(oc, id)

\* c.cache.Get(ctx, id) as far as the wait: the caller that installed the
\* entry starts the load, every other caller waits on the entry
getWith(g, oc) ==
    /\ ocache' = oc
    /\ getters' = [getters EXCEPT ![g].e = oc.data[getters[g].id],
                                  ![g].pc = IF Len(oc.entries) > Len(ocache.entries)
                                            THEN "load" ELSE "wait"]
    /\ rounds' = [rounds EXCEPT ![getters[g].id].loads =
                     IF g \in rounds[getters[g].id].members
                         /\ Len(oc.entries) > Len(ocache.entries)
                     THEN @ + 1 ELSE @]
    /\ UNCHANGED <<treeVars, convVars, lockVars, aclVars, nodeVars>>

\* the document is loaded for the caller without asking the cache for it
CacheGetAroundCache(g) ==
    /\ getters[g].pc = "get"
    /\ getWith(g, getMissing(ocache, getters[g].id))

CacheGet(g) ==
    /\ getters[g].pc = "get"
    /\ getWith(g, lookup(ocache, getters[g].id))

\* the loader given to ocache.New: the document of the id in the space of
\* the context, created when the context carries a create payload
loadFunc(spaceId, id, create, serial) ==
    [space |-> spaceId, id |-> id, created |-> create, load |-> serial]

\* the load publishes the value to the entry
loaded(oc, e, doc) ==
    [oc EXCEPT !.entries[e].state = "loaded", !.entries[e].value = doc]

\* a failed load is not cached
loadFailed(oc, e) ==
    [data |-> [k \in {x \in DOMAIN oc.data : oc.data[x] # e} |-> oc.data[k]],
     entries |-> [oc.entries EXCEPT ![e].state = "failed"]]

\* the load started by the getter that installed the entry
Load(g) ==
    /\ getters[g].pc = "load"
    /\ \E ok \in BOOLEAN :
          /\ ocache' = IF ok
                       THEN loaded(ocache, getters[g].e,
                                   loadFunc(getters[g].space, getters[g].id,
                                            getters[g].create, getters[g].e))
                       ELSE loadFailed(ocache, getters[g].e)
          /\ rounds' = [rounds EXCEPT ![getters[g].id].failed = @ \/ ~ok]
    /\ getters' = [getters EXCEPT ![g].pc = "wait"]
    /\ UNCHANGED <<treeVars, convVars, lockVars, aclVars, nodeVars>>

\* what a caller of Get receives once the load of its entry is over
outcome(entry) ==
    IF entry.state = "loaded" THEN [doc |-> entry.value, err |-> "nil"]
    ELSE [doc |-> NoDoc, err |-> "load failed"]

\* c.cache.Get returns and GetDocument / CreateDocument hand the value on
Return(g) ==
    /\ getters[g].pc = "wait"
    /\ ocache.entries[getters[g].e].state # "loading"
    /\ getters' = [getters EXCEPT ![g].pc = "idle",
                                  ![g].doc = outcome(ocache.entries[getters[g].e]).doc,
                                  ![g].err = outcome(ocache.entries[getters[g].e]).err]
    /\ rounds' = [rounds EXCEPT ![getters[g].id] =
                     IF g \in @.members
                     THEN [@ EXCEPT !.open = FALSE,
                                    !.results = @ \cup {outcome(ocache.entries[getters[g].e])}]
                     ELSE @]
    /\ UNCHANGED <<ocache, treeVars, convVars, lockVars, aclVars, nodeVars>>

NextCache ==
    \E g \in Getters :
        GetDocument(g) \/ CreateDocument(g) \/ CacheGet(g) \/ Load(g) \/ Return(g)

(***************************************************************************)
(* Claims about the tree cache, under SpecCache.                           *)
(***************************************************************************)
OneLoadOneResult(id) ==
    rounds[id].loads <= 1 /\ Cardinality(rounds[id].results) <= 1

C20_KeyedBySpace ==
    \A g \in Getters :
        (getters[g].pc = "idle" /\ getters[g].gets > 0 /\ getters[g].err = "nil") =>
            /\ getters[g].doc.space = getters[g].space
            /\ getters[g].doc.id = getters[g].id


(***************************************************************************)
(* nodesync/hotsync: the queue of spaces to warm up.  Space ids are the    *)
(* numbers 1..4 in their string order; EmptyId is Go's "" which sorts      *)
(* before every id.                                                        *)
(***************************************************************************)
MaxUpdates == 3
MaxTicks == 3
simultaneousSync == 2
EmptyId == 0
SpaceIds == 1..4

RECURSIVE Orderings(_)
Orderings(S) == IF S = {} THEN {<<>>}
            ELSE UNION {{<<x>> \o p : p \in Orderings(S \ {x})} : x \in S}

\* the arguments of UpdateQueue: distinct non-empty ids in any order
ChangedIds == UNION {Orderings(S) : S \in SUBSET SpaceIds \ {{}}}

NoRun == [ids |-> {}, ticks |-> 0, drained |-> TRUE, attempts |-> [id \in SpaceIds |-> 0]]
NoTick == [op |-> "none", arg |-> {}, queue |-> <<>>, sync |-> {}, cp |-> <<>>, got |-> {}]

Updaters == {"u1", "u2"}
\* the goroutines of the step-by-step view: who holds mx, where the tick and
\* each UpdateQueue call stand, the last access to spaceQueue, and the count
\* of ids appended and taken off
NoRace == [mx |-> "free", tick |-> [pc |-> "idle", cp |-> <<>>],
           upd |-> [u \in Updaters |-> [pc |-> "idle", arg |-> <<>>]],
           access |-> [by |-> "none", locked |-> TRUE],
           appended |-> 0, dequeued |-> 0]

InitHot ==
    hsync = [spaceQueue |-> <<>>, syncQueue |-> {}, cache |-> {}, hit |-> 0, miss |-> 0,
          updates |-> 0, ticks |-> 0, last |-> NoTick, run |-> NoRun, race |-> NoRace]

\* slices.Sort on a slice of distinct strings
Sort(x) == SortedSeq(Range(x))

\* slices.BinarySearch: the leftmost position i (0-based) with x[i] >= target
\* by halving, whatever the order of x; found iff x[i] is the target
RECURSIVE searchFrom(_, _, _, _)
searchFrom(x, target, i, j) ==
    IF i >= j THEN i
    ELSE LET h == (i + j) \div 2
         IN IF x[h + 1] < target THEN searchFrom(x, target, h + 1, j)
                                 ELSE searchFrom(x, target, i, h)

BinarySearch(x, target) ==
    LET i == searchFrom(x, target, 0, Len(x))
    IN [idx |-> i, exists |-> i < Len(x) /\ x[i + 1] = target]

\* the first loop of UpdateQueue: blank, in changedIds, each queued id found
RECURSIVE blankQueued(_, _, _)
blankQueued(changedIds, queue, k) ==
    IF k > Len(queue) THEN changedIds
    ELSE LET f == BinarySearch(changedIds, queue[k])
         IN blankQueued(IF f.exists THEN [changedIds EXCEPT ![f.idx + 1] = EmptyId]
                                    ELSE changedIds,
                        queue, k + 1)

merged(queue, changedIds) ==
    queue \o SelectSeq(blankQueued(Sort(changedIds), queue, 1), LAMBDA id : id # EmptyId)

UpdateQueue ==
    /\ hsync.updates < MaxUpdates
    /\ \E changedIds \in ChangedIds :
         hsync' = [hsync EXCEPT
                  !.spaceQueue = merged(hsync.spaceQueue, changedIds),
                  !.updates = @ + 1,
                  !.last = [NoTick EXCEPT !.op = "UpdateQueue", !.arg = Range(changedIds),
                                          !.queue = hsync.spaceQueue, !.sync = hsync.syncQueue],
                  !.run = IF hsync.spaceQueue = <<>>
                          THEN [NoRun EXCEPT !.ids = Range(changedIds)]
                          ELSE NoRun]
    /\ UNCHANGED <<treeVars, convVars, lockVars, aclVars, cacheVars, pm, sv, tb>>

\* checkRemoved: drop from syncQueue the ids the space cache no longer holds
checkRemoved(syncQueue, cache) == syncQueue \cap cache

min(x, y) == IF x < y THEN x ELSE y

batchLenOfQueue(syncQueue, spaceQueue) == min(simultaneousSync, Len(spaceQueue))

batchLen(syncQueue, spaceQueue) ==
    min(simultaneousSync - Cardinality(syncQueue), Len(spaceQueue))

restSkipping(spaceQueue, newBatchLen) ==
    SubSeq(spaceQueue, min(newBatchLen + 2, Len(spaceQueue) + 1), Len(spaceQueue))

\* h.spaceQueue[newBatchLen:]
rest(spaceQueue, newBatchLen) == SubSeq(spaceQueue, newBatchLen + 1, Len(spaceQueue))

attempted(attempts, cp) ==
    [id \in SpaceIds |-> attempts[id] + Cardinality({k \in 1..Len(cp) : cp[k] = id})]

\* a loop that puts every id of the batch into the sync queue
insertedAll(pruned, cp, got) == pruned \cup Range(cp)

\* the loop over the batch: h.syncQueue[id] = struct{}{} for each id got
inserted(pruned, cp, got) == pruned \cup got

\* one periodic tick; got is the set of ids whose GetSpace succeeded, and a
\* space that was got is held by the space cache
checkCache ==
    /\ hsync.ticks < MaxTicks
    /\ LET pruned == checkRemoved(hsync.syncQueue, hsync.cache)
           newBatchLen == batchLen(pruned, hsync.spaceQueue)
           cp == SubSeq(hsync.spaceQueue, 1, newBatchLen)
       IN \E got \in SUBSET Range(cp) :
            hsync' = [hsync EXCEPT
                     !.spaceQueue = rest(hsync.spaceQueue, newBatchLen),
                     !.syncQueue = inserted(pruned, cp, got),
                     !.cache = @ \cup got,
                     !.hit = @ + Cardinality({k \in 1..Len(cp) : cp[k] \notin got}),
                     !.miss = @ + Cardinality({k \in 1..Len(cp) : cp[k] \in got}),
                     !.ticks = @ + 1,
                     !.last = [op |-> "checkCache", arg |-> {}, queue |-> hsync.spaceQueue,
                               sync |-> pruned, cp |-> cp, got |-> got],
                     !.run = IF hsync.run.ids = {} THEN NoRun
                             ELSE [hsync.run EXCEPT !.ticks = @ + 1,
                                                 !.drained = @ /\ pruned = {},
                                                 !.attempts = attempted(@, cp)]]
    /\ UNCHANGED <<treeVars, convVars, lockVars, aclVars, cacheVars, pm, sv, tb>>

\* the space cache closes and drops an idle space
Evict ==
    /\ hsync.ticks < MaxTicks
    /\ \E id \in hsync.cache : hsync' = [hsync EXCEPT !.cache = @ \ {id}]
    /\ UNCHANGED <<treeVars, convVars, lockVars, aclVars, cacheVars, pm, sv, tb>>

NextHot == UpdateQueue \/ checkCache \/ Evict

IsTick == hsync'.last.op = "checkCache" /\ hsync'.ticks = hsync.ticks + 1

\* the ids of the scenario with simultaneousSync = 2: a, b, c, d
QueuedABCD ==
    /\ hsync.last.op = "UpdateQueue" /\ hsync.last.arg = {1, 2, 3, 4}
    /\ hsync.last.queue = <<>> /\ hsync.syncQueue = {}

\* C21: the sync queue never holds more than simultaneousSync ids; a tick
\* takes exactly min(simultaneousSync - |syncQueue|, |spaceQueue|) ids off the
\* front of the space queue, in queue order, |syncQueue| being counted after
\* the tick has dropped the ids the space cache no longer holds; and with a
\* limit of 2, UpdateQueue([a,b,c,d]) followed by one tick whose every
\* GetSpace succeeds leaves syncQueue = {a,b} and spaceQueue = [c,d].
C21_Budget ==
    [][/\ Cardinality(hsync'.syncQueue) <= simultaneousSync
       /\ IsTick =>
            LET n == min(simultaneousSync - Cardinality(hsync'.last.sync),
                         Len(hsync.spaceQueue))
            IN /\ hsync'.last.sync = {id \in hsync.syncQueue : id \in hsync.cache}
               /\ n >= 0
               /\ hsync'.last.cp = SubSeq(hsync.spaceQueue, 1, n)
               /\ hsync'.spaceQueue = SubSeq(hsync.spaceQueue, n + 1, Len(hsync.spaceQueue))
               /\ hsync'.syncQueue \subseteq hsync'.last.sync \cup Range(hsync'.last.cp)
       /\ (IsTick /\ QueuedABCD /\ hsync'.last.got = Range(hsync'.last.cp)) =>
            (hsync'.syncQueue = {1, 2} /\ hsync'.spaceQueue = <<3, 4>>)]_vars

\* a tick that found the sync queue partly full and took less than the whole
\* space queue, and the scenario's tick
C21_Witness ==
    /\ hsync.last.op = "checkCache"
    /\ hsync.last.sync # {} /\ Len(hsync.last.cp) = 1 /\ Len(hsync.last.queue) > 1
    /\ Cardinality(hsync.syncQueue) = simultaneousSync

Ceil(a, b) == (a + b - 1) \div b

\* the ticks the claim allows have passed since UpdateQueue(ids) on an empty queue
RunDue ==
    /\ hsync.run.ids # {}
    /\ hsync.run.ticks >= Ceil(Cardinality(hsync.run.ids), simultaneousSync)

AttemptedOnce == \A id \in hsync.run.ids : hsync.run.attempts[id] = 1

\* C22 as stated: after UpdateQueue(ids) on an empty space queue, within
\* ceil(|ids| / simultaneousSync) ticks every id of ids has been passed to
\* GetSpace exactly once.
C22_Progress == RunDue => AttemptedOnce

\* C22 amended: the same, for the runs in which every tick found the sync
\* queue empty once the ids no longer cached were dropped from it.
C22_ProgressWhenDrained == (RunDue /\ hsync.run.drained) => AttemptedOnce

C22_Witness ==
    /\ RunDue /\ hsync.run.drained /\ AttemptedOnce
    /\ Cardinality(hsync.run.ids) = 3 /\ hsync.run.ticks = 2
    /\ hsync.miss >= 2 /\ hsync.last.got # {}

IsUpdate == hsync'.last.op = "UpdateQueue" /\ hsync'.updates = hsync.updates + 1

NoDuplicates(q) == \A i, j \in 1..Len(q) : q[i] = q[j] => i = j

\* C23: UpdateQueue with distinct non-empty ids never queues an id twice: the
\* ids queued before keep their positions, the ids of the argument that were
\* not queued are appended at the tail, once each, and no other id is.
C23_Dedup ==
    [][IsUpdate =>
         LET q == hsync.spaceQueue
             q2 == hsync'.spaceQueue
             fresh == hsync'.last.arg \ Range(q)
         IN /\ SubSeq(q2, 1, Len(q)) = q
            /\ Len(q2) = Len(q) + Cardinality(fresh)
            /\ Range(SubSeq(q2, Len(q) + 1, Len(q2))) = fresh
            /\ NoDuplicates(q) => NoDuplicates(q2)]_vars

(***************************************************************************)
(* nodespace/peermanager: the responsible peers of one space.  Time is     *)
(* counted in half minutes; the zero time.Time lies more than a minute     *)
(* before the start of the clock.                                          *)
(***************************************************************************)
MaxClock == 6
MaxPeerCalls == 2
reconnectTimeout == 2
Minute == 2
ZeroTime == 0
StartTime == 3
Callers == {"c1", "c2"}
\* nodeconf.NodeIds(spaceId)
NodeIds == <<"p1", "p2">>
NoPeer == [peerId |-> "", lastFail |-> ZeroTime]
NoFails == [p \in Range(NodeIds) |-> ZeroTime]
IdleCaller == [pc |-> "idle", kind |-> "", start |-> ZeroTime, failed |-> NoFails, objs |-> <<>>,
               idx |-> 0, rp |-> NoPeer, peers |-> <<>>, tried |-> {}, err |-> "nil"]
NoAttempt == [peerId |-> "", at |-> ZeroTime, prevFail |-> ZeroTime]

InitPeers ==
    pm = [responsiblePeers |-> <<>>, responsiblePeersUpdated |-> ZeroTime,
          now |-> StartTime, calls |-> 0, callers |-> [c \in Callers |-> IdleCaller],
          reloads |-> <<>>, failedAt |-> NoFails,
          attempt |-> NoAttempt]

Since(t) == pm.now - t

\* entry of GetResponsiblePeers / SendResponsible (kind "GetResponsiblePeers")
\* and of SendMessage, which asks isResponsible
GetResponsiblePeers(c) ==
    /\ pm.callers[c].pc = "idle"
    /\ pm.calls < MaxPeerCalls
    /\ \E kind \in {"GetResponsiblePeers", "SendMessage"} :
         pm' = [pm EXCEPT !.calls = @ + 1,
                          !.callers[c] = [IdleCaller EXCEPT !.pc = "objects", !.kind = kind,
                                                            !.start = pm.now,
                                                            !.failed = pm.failedAt]]
    /\ UNCHANGED <<treeVars, convVars, lockVars, aclVars, cacheVars, hsync, sv, tb>>

\* getResponsiblePeersObjects, the test made without the mutex
fresh == Len(pm.responsiblePeers) # 0 /\ Since(pm.responsiblePeersUpdated) < Minute

getResponsiblePeersObjects(c) ==
    /\ pm.callers[c].pc = "objects"
    /\ pm' = [pm EXCEPT !.callers[c] = IF fresh
                                       THEN [@ EXCEPT !.pc = "range",
                                                      !.objs = pm.responsiblePeers, !.idx = 1]
                                       ELSE [@ EXCEPT !.pc = "reload"]]
    /\ UNCHANGED <<treeVars, convVars, lockVars, aclVars, cacheVars, hsync, sv, tb>>

appended == pm.responsiblePeers \o [i \in 1..Len(NodeIds) |-> [NoPeer EXCEPT !.peerId = NodeIds[i]]]

\* the part of getResponsiblePeersObjects that runs under responsiblePeersMu
reload(c) ==
    /\ pm.callers[c].pc = "reload"
    /\ pm' = [pm EXCEPT !.responsiblePeers = appended,
                        !.responsiblePeersUpdated = pm.now,
                        !.reloads = Append(@, pm.now),
                        !.callers[c] = [@ EXCEPT !.pc = "range", !.objs = appended, !.idx = 1]]
    /\ UNCHANGED <<treeVars, convVars, lockVars, aclVars, cacheVars, hsync, sv, tb>>

\* one iteration of the loop of getResponsiblePeers: rp is a copy of the
\* element, and a failure is stamped on the copy
connect(c) ==
    /\ pm.callers[c].pc = "range"
    /\ pm.callers[c].kind = "GetResponsiblePeers"
    /\ pm.callers[c].idx <= Len(pm.callers[c].objs)
    /\ LET me == pm.callers[c]
           rp == me.objs[me.idx]
       IN IF Since(rp.lastFail) > reconnectTimeout
          THEN \E ok \in BOOLEAN :
                 pm' = [pm EXCEPT
                          !.callers[c] = [@ EXCEPT
                              !.idx = @ + 1,
                              !.rp = IF ok THEN rp ELSE [rp EXCEPT !.lastFail = pm.now],
                              !.peers = IF ok THEN Append(@, rp.peerId) ELSE @,
                              !.tried = @ \cup {rp.peerId}],
                          !.failedAt[rp.peerId] = IF ok THEN @ ELSE pm.now,
                          !.attempt = [peerId |-> rp.peerId, at |-> pm.now,
                                       prevFail |-> me.failed[rp.peerId]]]
          ELSE pm' = [pm EXCEPT !.callers[c] = [@ EXCEPT !.idx = @ + 1, !.rp = rp]]
    /\ UNCHANGED <<treeVars, convVars, lockVars, aclVars, cacheVars, hsync, sv, tb>>

\* the end of getResponsiblePeers, or of isResponsible for SendMessage
return(c) ==
    /\ pm.callers[c].pc = "range"
    /\ \/ pm.callers[c].kind = "SendMessage"
       \/ pm.callers[c].idx > Len(pm.callers[c].objs)
    /\ pm' = [pm EXCEPT !.callers[c] =
                [@ EXCEPT !.pc = "idle", !.objs = <<>>, !.idx = 0, !.rp = NoPeer,
                          !.peers = <<>>,
                          !.err = IF pm.callers[c].kind = "GetResponsiblePeers"
                                     /\ Len(pm.callers[c].peers) = 0
                                  THEN "ErrUnableToConnect" ELSE "nil"]]
    /\ UNCHANGED <<treeVars, convVars, lockVars, aclVars, cacheVars, hsync, sv, tb>>

Clock ==
    /\ pm.now < MaxClock
    /\ pm' = [pm EXCEPT !.now = @ + 1]
    /\ UNCHANGED <<treeVars, convVars, lockVars, aclVars, cacheVars, hsync, sv, tb>>

NextPeers ==
    \/ \E c \in Callers : GetResponsiblePeers(c)
    \/ \E c \in Callers : getResponsiblePeersObjects(c)
    \/ \E c \in Callers : reload(c)
    \/ \E c \in Callers : connect(c)
    \/ \E c \in Callers : return(c)
    \/ Clock

\* C24: once a connection attempt to a responsible peer has failed inside
\* GetResponsiblePeers at time t, a call made after that failure does not
\* attempt the peer before t + 60s, and a call made after t + 60s has
\* attempted it when it returns.
C24_Cooldown ==
    /\ pm.attempt.prevFail # ZeroTime
          => pm.attempt.at >= pm.attempt.prevFail + reconnectTimeout
    /\ \A c \in Callers, p \in Range(NodeIds) :
          (/\ pm.callers[c].pc = "idle" /\ pm.callers[c].kind = "GetResponsiblePeers"
           /\ pm.callers[c].failed[p] # ZeroTime
           /\ pm.callers[c].start > pm.callers[c].failed[p] + reconnectTimeout)
          => p \in pm.callers[c].tried

\* C25: the list is reloaded from the node configuration at most once in any
\* one-minute window, whatever the number of callers.
C25_ReloadOncePerMinute ==
    \A i, j \in 1..Len(pm.reloads) : i < j => pm.reloads[j] - pm.reloads[i] >= Minute

\* the peer ids of a list of responsible peers, in order
PeerIds(objs) == [i \in 1..Len(objs) |-> objs[i].peerId]

\* C39: after any number of refreshes the list of responsible peers holds
\* each configured node id exactly once, in the order of the configuration,
\* so the list one call of GetResponsiblePeers walks names no peer twice.
C39_ListIsConfiguration ==
    /\ Len(pm.reloads) > 0 => PeerIds(pm.responsiblePeers) = NodeIds
    /\ \A c \in Callers :
          pm.callers[c].pc = "range" =>
              \A i, j \in 1..Len(pm.callers[c].objs) :
                  pm.callers[c].objs[i].peerId = pm.callers[c].objs[j].peerId => i = j

(***************************************************************************)
(* nodespace/service: loading a space, GetStats, and the debug entry       *)
(* ForceNodeSync.  An error value is the set of the errors joined in it,   *)
(* NoErr standing for nil.                                                 *)
(***************************************************************************)
MaxSvcCalls == 3
forceDeadline == 2
SvcSpaces == {"s1"}
NoErr == {}
\* what DeletionStorage().SpaceStatus answers for a space
DeletionAnswers ==
    {[status |-> "SpaceStatusOk", err |-> "nil"],
     [status |-> "SpaceStatusRemove", err |-> "nil"],
     [status |-> "SpaceStatusOk", err |-> "ErrUnknownSpaceId"],
     [status |-> "SpaceStatusOk", err |-> "ErrStorage"]}
Unknown == [status |-> "SpaceStatusOk", err |-> "ErrUnknownSpaceId"]
NoSvcCall == [op |-> "none", id |-> "", answer |-> Unknown, wasCached |-> FALSE,
              getSpaceErr |-> NoErr, err |-> NoErr, built |-> FALSE, closes |-> 0, touched |-> FALSE,
              supports |-> FALSE, stats |-> 0]
IdleForce == [pc |-> "idle", elapsed |-> 0, sync |-> "none", syncErr |-> NoErr,
              resp |-> "none", err |-> NoErr, at |-> 0, syncAtReturn |-> "none"]

InitSvc ==
    sv = [status |-> [id \in SvcSpaces |-> Unknown], cached |-> {}, calls |-> 0,
          last |-> NoSvcCall, force |-> IdleForce]

\* the deletion storage is written by the deletion process
SetSpaceStatus ==
    /\ sv.calls < MaxSvcCalls
    /\ \E id \in SvcSpaces, a \in DeletionAnswers :
         /\ sv.status[id] # a
         /\ sv' = [sv EXCEPT !.status[id] = a]
    /\ UNCHANGED <<treeVars, convVars, lockVars, aclVars, cacheVars, hsync, pm, tb>>

checkDeletionStatusIgnoringRemove(answer) ==
    IF answer.err # "nil"
    THEN IF answer.err = "ErrUnknownSpaceId" THEN NoErr ELSE {answer.err}
    ELSE NoErr

checkDeletionStatus(answer) ==
    IF answer.err # "nil"
    THEN IF answer.err = "ErrUnknownSpaceId" THEN NoErr ELSE {answer.err}
    ELSE IF answer.status = "SpaceStatusRemove" THEN {"ErrSpaceIsDeleted"}
    ELSE NoErr

\* loadSpace: newSpaceErr, nodeSpaceErr, initErr are what commonSpace.NewSpace,
\* newNodeSpace and ns.Init return; built says that NewSpace was called
loadSpace(answer, newSpaceErr, nodeSpaceErr, initErr) ==
    LET err == checkDeletionStatus(answer)
    IN IF err # NoErr THEN [err |-> err, built |-> FALSE]
       ELSE IF newSpaceErr # NoErr THEN [err |-> newSpaceErr, built |-> TRUE]
       ELSE IF nodeSpaceErr # NoErr THEN [err |-> nodeSpaceErr, built |-> TRUE]
       ELSE IF initErr # NoErr THEN [err |-> initErr, built |-> TRUE]
       ELSE [err |-> NoErr, built |-> TRUE]

LoadErrs == {NoErr, {"ErrLoad"}}

\* GetSpace: spaceCache.Get, which calls loadSpace for a space it does not hold
getSpace(id, newSpaceErr, nodeSpaceErr, initErr) ==
    IF id \in sv.cached THEN [err |-> NoErr, built |-> FALSE]
    ELSE loadSpace(sv.status[id], newSpaceErr, nodeSpaceErr, initErr)

GetSpace ==
    /\ sv.calls < MaxSvcCalls
    /\ \E id \in SvcSpaces, newSpaceErr \in LoadErrs, nodeSpaceErr \in LoadErrs,
          initErr \in LoadErrs :
         LET got == getSpace(id, newSpaceErr, nodeSpaceErr, initErr)
         IN sv' = [sv EXCEPT
                     !.calls = @ + 1,
                     !.cached = IF got.err = NoErr THEN @ \cup {id} ELSE @,
                     !.last = [NoSvcCall EXCEPT !.op = "GetSpace", !.id = id,
                                                !.answer = sv.status[id],
                                                !.wasCached = id \in sv.cached,
                                                !.getSpaceErr = got.err,
                                                !.err = got.err, !.built = got.built]]
    /\ UNCHANGED <<treeVars, convVars, lockVars, aclVars, cacheVars, hsync, pm, tb>>

\* errors.Join(err, closeErr)
Join(err, closeErr) == err \cup closeErr

getStatsLeakingOnError(getSpaceErr, supports, maxLen, maxLenErr, closeErr) ==
    IF getSpaceErr # NoErr
    THEN [err |-> getSpaceErr, stats |-> 0, closes |-> 0, touched |-> FALSE]
    ELSE IF supports /\ maxLenErr # NoErr
    THEN [err |-> maxLenErr, stats |-> 0, closes |-> 0, touched |-> TRUE]
    ELSE [err |-> Join(IF supports THEN NoErr ELSE {"ErrDoesntSupportStats"}, closeErr),
          stats |-> IF supports THEN maxLen ELSE 0, closes |-> 1, touched |-> TRUE]

\* GetStats after its GetSpace: the body and the deferred Close
getStats(getSpaceErr, supports, maxLen, maxLenErr, closeErr) ==
    LET body == IF getSpaceErr # NoErr THEN [err |-> getSpaceErr, stats |-> 0]
                ELSE IF supports
                     THEN IF maxLenErr # NoErr THEN [err |-> maxLenErr, stats |-> 0]
                          ELSE [err |-> NoErr, stats |-> maxLen]
                     ELSE [err |-> {"ErrDoesntSupportStats"}, stats |-> 0]
    IN IF getSpaceErr = NoErr
       THEN [err |-> Join(body.err, closeErr), stats |-> body.stats, closes |-> 1,
             touched |-> TRUE]
       ELSE [err |-> body.err, stats |-> body.stats, closes |-> 0, touched |-> FALSE]

GetStats ==
    /\ sv.calls < MaxSvcCalls
    /\ \E id \in SvcSpaces, loadErr \in LoadErrs, supports \in BOOLEAN, maxLen \in {1, 2},
          maxLenErr \in {NoErr, {"ErrMaxLen"}}, closeErr \in {NoErr, {"ErrClose"}} :
         LET got == getSpace(id, loadErr, NoErr, NoErr)
             r == getStats(got.err, supports, maxLen, maxLenErr, closeErr)
         IN sv' = [sv EXCEPT
                     !.calls = @ + 1,
                     !.cached = IF got.err = NoErr THEN @ \cup {id} ELSE @,
                     !.last = [op |-> "GetStats", id |-> id, answer |-> sv.status[id],
                               wasCached |-> id \in sv.cached, getSpaceErr |-> got.err,
                               err |-> r.err,
                               built |-> got.built, closes |-> r.closes,
                               touched |-> r.touched,
                               supports |-> supports,
                               stats |-> r.stats]]
    /\ UNCHANGED <<treeVars, convVars, lockVars, aclVars, cacheVars, hsync, pm, tb>>

\* ForceNodeSync: start Sync in a goroutine and wait in the select; time is
\* counted in steps of 50ms
ForceNodeSync ==
    /\ sv.calls < MaxSvcCalls
    /\ sv.force.pc # "waiting" /\ sv.force.sync # "running"
    /\ sv' = [sv EXCEPT !.calls = @ + 1,
                        !.force = [IdleForce EXCEPT !.pc = "waiting", !.sync = "running"]]
    /\ UNCHANGED <<treeVars, convVars, lockVars, aclVars, cacheVars, hsync, pm, tb>>

\* nodeSync.Sync() returns and its error is sent on errCh
Sync ==
    /\ sv.force.sync = "running"
    /\ \E e \in {NoErr, {"ErrSync"}} :
         sv' = [sv EXCEPT !.force = [@ EXCEPT !.sync = "done", !.syncErr = e]]
    /\ UNCHANGED <<treeVars, convVars, lockVars, aclVars, cacheVars, hsync, pm, tb>>

After ==
    /\ sv.force.pc = "waiting"
    /\ sv.force.elapsed < forceDeadline
    /\ sv' = [sv EXCEPT !.force = [@ EXCEPT !.elapsed = @ + 1]]
    /\ UNCHANGED <<treeVars, convVars, lockVars, aclVars, cacheVars, hsync, pm, tb>>

\* the select: whichever case is ready, either of them when both are
selectCase ==
    /\ sv.force.pc = "waiting"
    /\ \/ /\ sv.force.elapsed >= forceDeadline
          /\ sv' = [sv EXCEPT !.force = [@ EXCEPT !.pc = "returned", !.resp = "empty",
                                                  !.err = NoErr, !.at = sv.force.elapsed,
                                                  !.syncAtReturn = sv.force.sync]]
       \/ /\ sv.force.sync = "done"
          /\ sv' = [sv EXCEPT !.force = [@ EXCEPT !.pc = "returned", !.resp = "nil",
                                                  !.err = sv.force.syncErr,
                                                  !.at = sv.force.elapsed,
                                                  !.syncAtReturn = sv.force.sync]]
    /\ UNCHANGED <<treeVars, convVars, lockVars, aclVars, cacheVars, hsync, pm, tb>>

NextSvc == SetSpaceStatus \/ GetSpace \/ GetStats \/ ForceNodeSync \/ Sync \/ After \/ selectCase

\* the last call ran loadSpace
Loaded == sv.last.op \in {"GetSpace", "GetStats"} /\ ~sv.last.wasCached

\* C26: loadSpace of a space whose deletion status is Remove fails with
\* ErrSpaceIsDeleted and does not construct the space; the answer
\* ErrUnknownSpaceId lets the load go on to construct it; any other error of
\* the deletion storage is returned and the space is not constructed.
C26_DeletionStatus ==
    Loaded =>
      /\ (sv.last.answer.err = "nil" /\ sv.last.answer.status = "SpaceStatusRemove")
            => (sv.last.getSpaceErr = {"ErrSpaceIsDeleted"} /\ ~sv.last.built)
      /\ sv.last.answer.err = "ErrUnknownSpaceId" => sv.last.built
      /\ sv.last.answer.err \notin {"nil", "ErrUnknownSpaceId"}
            => (sv.last.getSpaceErr = {sv.last.answer.err} /\ ~sv.last.built)

C26_Witness ==
    /\ Loaded /\ sv.last.answer.status = "SpaceStatusRemove"
    /\ sv.last.getSpaceErr = {"ErrSpaceIsDeleted"} /\ ~sv.last.built

\* C27: GetStats closes the space exactly once on every path on which
\* GetSpace succeeded, whether the stats were read, GetMaxChangeLen failed or
\* the storage has no stats; it does not touch the space when GetSpace
\* failed; and a storage without stats gives ErrDoesntSupportStats.
C27_ReleasedOnce ==
    sv.last.op = "GetStats" =>
      /\ sv.last.getSpaceErr = NoErr => sv.last.closes = 1
      /\ sv.last.getSpaceErr # NoErr
            => (sv.last.closes = 0 /\ ~sv.last.touched /\ sv.last.err = sv.last.getSpaceErr)
      /\ (sv.last.getSpaceErr = NoErr /\ ~sv.last.supports)
            => ("ErrDoesntSupportStats" \in sv.last.err /\ sv.last.stats = 0)

C27_Witness ==
    /\ sv.last.op = "GetStats" /\ sv.last.getSpaceErr = NoErr /\ sv.last.closes = 1
    /\ sv.last.err = {"ErrMaxLen", "ErrClose"}

\* C28: ForceNodeSync answers its caller with an empty response and no error
\* once the 100ms have passed, whether Sync has finished, is still running
\* or has failed.
C28_FixedDeadline ==
    sv.force.pc = "returned" =>
      /\ sv.force.resp = "empty" /\ sv.force.err = NoErr
      /\ sv.force.at = forceDeadline

RaceArgs == UNION {Orderings(S) : S \in SUBSET {1, 2} \ {{}}}

Others == <<treeVars, convVars, lockVars, aclVars, cacheVars, pm, sv, tb>>

\* UpdateQueue: h.mx.Lock()
updateLock(u) ==
    /\ hsync.updates < MaxUpdates
    /\ hsync.race.upd[u].pc = "idle"
    /\ hsync.race.mx = "free"
    /\ \E changedIds \in RaceArgs :
         hsync' = [hsync EXCEPT !.updates = @ + 1,
                                !.race.mx = u,
                                !.race.upd[u] = [pc |-> "locked", arg |-> changedIds]]
    /\ UNCHANGED Others

\* UpdateQueue: the body and the deferred Unlock
updateMerge(u) ==
    /\ hsync.race.upd[u].pc = "locked"
    /\ LET q == merged(hsync.spaceQueue, hsync.race.upd[u].arg)
       IN hsync' = [hsync EXCEPT
                      !.spaceQueue = q,
                      !.race.mx = "free",
                      !.race.upd[u] = [pc |-> "idle", arg |-> <<>>],
                      !.race.access = [by |-> u, locked |-> hsync.race.mx = u],
                      !.race.appended = @ + Len(q) - Len(hsync.spaceQueue)]
    /\ UNCHANGED Others

\* checkCache: the log line that reads len(h.spaceQueue), then checkRemoved
tickBegin ==
    /\ hsync.ticks < MaxTicks
    /\ hsync.race.tick.pc = "idle"
    /\ hsync' = [hsync EXCEPT
                   !.ticks = @ + 1,
                   !.syncQueue = checkRemoved(@, hsync.cache),
                   !.race.tick = [pc |-> "removed", cp |-> <<>>],
                   !.race.access = [by |-> "tick", locked |-> hsync.race.mx = "tick"]]
    /\ UNCHANGED Others

\* checkCache: h.mx.Lock()
tickLock ==
    /\ hsync.race.tick.pc = "removed"
    /\ hsync.race.mx = "free"
    /\ hsync' = [hsync EXCEPT !.race.mx = "tick", !.race.tick.pc = "locked"]
    /\ UNCHANGED Others

\* checkCache: cut the batch off the queue, h.mx.Unlock()
tickCut ==
    /\ hsync.race.tick.pc = "locked"
    /\ LET newBatchLen == batchLen(hsync.syncQueue, hsync.spaceQueue)
       IN hsync' = [hsync EXCEPT
                      !.spaceQueue = rest(@, newBatchLen),
                      !.race.mx = "free",
                      !.race.tick = [pc |-> "gets",
                                     cp |-> SubSeq(hsync.spaceQueue, 1, newBatchLen)],
                      !.race.access = [by |-> "tick", locked |-> hsync.race.mx = "tick"],
                      !.race.dequeued = @ + newBatchLen]
    /\ UNCHANGED Others

\* checkCache: the loop of GetSpace over the batch
tickGets ==
    /\ hsync.race.tick.pc = "gets"
    /\ LET cp == hsync.race.tick.cp
       IN \E got \in SUBSET Range(cp) :
            hsync' = [hsync EXCEPT
                        !.syncQueue = inserted(@, cp, got),
                        !.cache = @ \cup got,
                        !.hit = @ + Cardinality({k \in 1..Len(cp) : cp[k] \notin got}),
                        !.miss = @ + Cardinality({k \in 1..Len(cp) : cp[k] \in got}),
                        !.race.tick = [pc |-> "idle", cp |-> <<>>]]
    /\ UNCHANGED Others

NextHotRace ==
    \/ \E u \in Updaters : updateLock(u)
    \/ \E u \in Updaters : updateMerge(u)
    \/ tickBegin \/ tickLock \/ tickCut \/ tickGets

\* C35: under any interleaving of UpdateQueue calls with a tick, every read
\* and write of spaceQueue is made by a goroutine that holds mx, and every
\* id appended is still queued or was taken off by one tick.
C35_QueueUnderMutex ==
    /\ hsync.race.access.locked
    /\ hsync.race.appended = Len(hsync.spaceQueue) + hsync.race.dequeued

(***************************************************************************)
(* data/acltreebuilder.go: building the ACL tree of a thread from its      *)
(* heads.  The thread holds the changes 0..5; 0 is the first change of the *)
(* thread's owner, 3 a parentless change of somebody else, 5 joins 2 and 3.*)
(***************************************************************************)
ThreadChanges ==
    (0 :> [PreviousIds |-> <<>>,     Identity |-> "owner"]) @@
    (1 :> [PreviousIds |-> <<0>>,    Identity |-> "owner"]) @@
    (2 :> [PreviousIds |-> <<1>>,    Identity |-> "bob"]) @@
    (3 :> [PreviousIds |-> <<>>,     Identity |-> "mallory"]) @@
    (4 :> [PreviousIds |-> <<0>>,    Identity |-> "bob"]) @@
    (5 :> [PreviousIds |-> <<2, 3>>, Identity |-> "bob"])
ThreadIds == DOMAIN ThreadChanges
\* thread.Heads() of the threads built
ThreadHeads == {<<2>>, <<4>>, <<5>>, <<2, 4>>, <<4, 2>>, <<4, 5>>, <<5, 4>>}

NoBuilder == [pc |-> "new", heads |-> <<>>, bad |-> {}, stack |-> <<>>, buf |-> <<>>,
              uniqMap |-> {}, possibleRoots |-> <<>>, err |-> "nil", root |-> NoId,
              tree |-> {}]

InitBuilder == tb = NoBuilder

\* NewACLTreeBuilder over a thread; bad are the changes that GetChange does not
\* return or whose payload or signature does not verify.  Build starts the walk
\* with the heads on the stack.
NewACLTreeBuilder ==
    /\ tb.pc = "new"
    /\ \E heads \in ThreadHeads, bad \in SUBSET ThreadIds :
         tb' = [NoBuilder EXCEPT !.pc = "dfs", !.heads = heads, !.bad = bad, !.stack = heads]
    /\ UNCHANGED <<treeVars, convVars, lockVars, aclVars, cacheVars, hsync, pm, sv>>

\* loadChange: the error of loading and verifying the change
loadChange(id) == IF id \in tb.bad THEN "error" ELSE "nil"

\* one iteration of the loop of dfsFromStart
dfsFromStart ==
    /\ tb.pc = "dfs"
    /\ Len(tb.stack) > 0
    /\ LET id == tb.stack[Len(tb.stack)]
           stack == SubSeq(tb.stack, 1, Len(tb.stack) - 1)
           ch == ThreadChanges[id]
       IN IF id \in tb.uniqMap \/ loadChange(id) # "nil"
          THEN tb' = [tb EXCEPT !.stack = stack]
          ELSE tb' = [tb EXCEPT
                        !.stack = stack \o ch.PreviousIds,
                        !.uniqMap = @ \cup {id},
                        !.buf = Append(@, id),
                        !.possibleRoots = IF Len(ch.PreviousIds) = 0 THEN Append(@, id) ELSE @]
    /\ UNCHANGED <<treeVars, convVars, lockVars, aclVars, cacheVars, hsync, pm, sv>>

\* VerifyACLThreadID: the identity is the one the thread id was derived from
VerifyACLThreadID(identity) == identity = "owner"

\* getRoot: the first possible root whose identity verifies against the thread id
getRoot(possibleRoots) ==
    LET ok == {i \in 1..Len(possibleRoots) :
                  VerifyACLThreadID(ThreadChanges[possibleRoots[i]].Identity)}
    IN IF ok = {} THEN [root |-> NoId, err |-> "could not find any root"]
       ELSE [root |-> possibleRoots[Min(ok)], err |-> "nil"]

\* buildTreeFromStart after the walk, and the return of Build
buildTreeFromStart ==
    /\ tb.pc = "dfs"
    /\ Len(tb.stack) = 0
    /\ tb' = IF Len(tb.possibleRoots) = 0
             THEN [tb EXCEPT !.pc = "done", !.err = "cannot have tree without root"]
             ELSE IF getRoot(tb.possibleRoots).err # "nil"
             THEN [tb EXCEPT !.pc = "done", !.err = getRoot(tb.possibleRoots).err]
             ELSE [tb EXCEPT !.pc = "done", !.root = getRoot(tb.possibleRoots).root,
                             !.tree = {getRoot(tb.possibleRoots).root} \cup Range(tb.buf)]
    /\ UNCHANGED <<treeVars, convVars, lockVars, aclVars, cacheVars, hsync, pm, sv>>

NextBuilder == NewACLTreeBuilder \/ dfsFromStart \/ buildTreeFromStart

\* the changes of the thread reachable from a set of ids along the PreviousIds
\* of the changes that can be read (those of an unreadable change are unknown)
RECURSIVE ReachableFrom(_, _)
ReachableFrom(ids, n) ==
    IF n = 0 THEN ids
    ELSE ReachableFrom(ids \cup UNION {Range(ThreadChanges[c].PreviousIds) : c \in ids \ tb.bad},
                       n - 1)

Reachable == ReachableFrom(Range(tb.heads), Cardinality(ThreadIds))

\* C37: a build fails with MultipleRoots when more than one parentless change
\* is reachable from the heads; every change of a tree that was built was
\* loaded and verified; and no build succeeds while leaving out a reachable
\* change that failed to load or verify.
C37_BuildIsComplete ==
    tb.pc = "done" =>
      /\ Cardinality({c \in Reachable \ tb.bad : Len(ThreadChanges[c].PreviousIds) = 0}) > 1
            => tb.err = "ErrMultipleRoots"
      /\ tb.err = "nil" => tb.tree \cap tb.bad = {}
      /\ tb.err = "nil" => Reachable \cap tb.bad = {}


Init == InitTree /\ InitConv /\ InitLock /\ InitAcl /\ InitCache /\ InitHot /\ InitPeers /\ InitSvc /\ InitBuilder
Next == DoAddRawChanges \/ DoAddContent
Spec == Init /\ [][Next]_vars
SpecConv == Init /\ [][NextConv]_vars
SpecLock == Init /\ [][NextLock]_vars
SpecPath == Init /\ [][NextPath]_vars
SpecAcl == Init /\ [][NextAcl]_vars
SpecCache == Init /\ [][NextCache]_vars
SpecHotSync == Init /\ [][NextHot]_vars
SpecPeers == Init /\ [][NextPeers]_vars
SpecService == Init /\ [][NextSvc]_vars
SpecCrash == Init /\ [][NextCrash]_vars
SpecHotRace == Init /\ [][NextHotRace]_vars
SpecBuilder == Init /\ [][NextBuilder]_vars

====
